---- MODULE Spec2Model ----
(***************************************************************************)
(* A model of package tstruct (src/tstruct.go): AddFuncMap registers, into *)
(* a FuncMap, one constructor per struct type and one savedApplyFn per     *)
(* struct field; a template later calls the constructor with the applyFns  *)
(* the field functions returned.                                           *)
(*                                                                         *)
(* reflect.Type is a type id (a string), described by TypeInfo.            *)
(* reflect.Value is a record [t |-> type id, v |-> payload]:               *)
(*   int, bool kinds   the number / the boolean                            *)
(*   string kind       the string                                          *)
(*   struct kind       the tuple of the field values, in field order       *)
(*   slice kind        the tuple of the elements                           *)
(*   map kind          [alloc |-> allocated?, m |-> function key -> elem]  *)
(*   interface         <<the value held>>                                  *)
(* A nil slice and an empty slice are both the empty tuple.                *)
(***************************************************************************)
EXTENDS Integers, Sequences, FiniteSets, TLC

\* base:  the caller's FuncMap
\* fnmap: the working copy of the last AddFuncMap call, as that call left it
\* err:   what the last AddFuncMap call returned ("nil", "error"; "panic": it panicked)
\* last:  the last call made and its arguments
\* out:   the outcome of the last constructor invocation
\* calls: the number of AddFuncMap calls made
\* inv:   the constructor invocations under way, one per template execution: where each
\*        is in the body of the constructor, and its local variables
VARIABLES base, fnmap, err, last, out, calls, inv

vars == <<base, fnmap, err, last, out, calls, inv>>

(***************************************************************************)
(* Bounds of the model.                                                    *)
(***************************************************************************)
MaxRegs == 3

MaxSteps == 2

\* T of addStructFuncs[reflect.Value]
reflectValueType == "reflect.Value"

\* fieldsAreUnsetType: the type of the sentinel a constructor feeds to the applyFns
fieldsAreUnsetType == "fieldsAreUnset"

(***************************************************************************)
(* The types of the test suite (src/tstruct_test.go), and a few more of    *)
(* the same shapes.                                                        *)
(***************************************************************************)
\* a field, of its declaration <<name, type, tag>>; a fourth entry marks it unexported
Fld(d) == [name |-> d[1], typ |-> d[2], tag |-> d[3], exported |-> Len(d) = 3]

NonStruct(k, n, e, key, h) ==
    [kind |-> k, name |-> n, elem |-> e, key |-> key, hook |-> h, fields |-> <<>>]

Struct(n, fs) ==
    [kind |-> "struct", name |-> n, elem |-> "", key |-> "", hook |-> "none", fields |-> fs]

StructTypes ==
    {"T", "S", "WrapS", "X", "Y", "W", "V", "M", "R", "Bad", "FT", "T2", "W2", "WY", "WM"}

\* the declaration of the type called t: <<Kind(), Name(), Elem(), Key(), TStructSet>>, or
\* <<"struct", Name()>> followed by the fields
TypeDecl(t) ==
    CASE t = "int" -> <<"int", "int", "", "", "none">>
      [] t = "string" -> <<"string", "string", "", "", "none">>
      [] t = "bool" -> <<"bool", "bool", "", "", "none">>
      [] t = "interface {}" -> <<"interface", "", "", "", "none">>
      \* type Z string; func (z *Z) TStructSet(x string)
      [] t = "Z" -> <<"string", "Z", "", "", "ptr">>
      \* type Zr string; func (z *Zr) TStructSet(x string) error
      [] t = "Zr" -> <<"string", "Zr", "", "", "ptr_returns">>
      \* type Zv string; func (z Zv) TStructSet(x string)
      [] t = "Zv" -> <<"string", "Zv", "", "", "value">>
      \* type Zvr string; func (z Zvr) TStructSet(x string) error
      [] t = "Zvr" -> <<"string", "Zvr", "", "", "value_returns">>
      \* reflect.New(method.Type.In(0).Elem()).Type()
      [] t = "*Z" -> <<"ptr", "", "Z", "", "none">>
      [] t = "[]int" -> <<"slice", "", "int", "", "none">>
      [] t = "[]struct { A int }" -> <<"slice", "", "struct { A int }", "", "none">>
      [] t = "map[string]struct { A int }" -> <<"map", "", "struct { A int }", "string", "none">>
      [] t = "map[struct { A int }]int" -> <<"map", "", "int", "struct { A int }", "none">>
      [] t = "[]T2" -> <<"slice", "", "T2", "", "none">>
      [] t = "[]Y" -> <<"slice", "", "Y", "", "none">>
      [] t = "map[string]int" -> <<"map", "", "int", "string", "none">>
      [] t = "map[string]X" -> <<"map", "", "X", "string", "none">>
      [] t = "map[string]interface {}" -> <<"map", "", "interface {}", "string", "none">>
      [] t = "T" -> <<"struct", "T", <<"A", "string", "">>>>
      [] t = "S" -> <<"struct", "S", <<"URL", "string", "">>, <<"Data", "map[string]int", "">>,
                        <<"List", "[]int", "">>, <<"ZStr", "Z", "">>, <<"Sub", "T", "">>>>
      [] t = "WrapS" -> <<"struct", "WrapS", <<"Inner", "S", "">>>>
      [] t = "X" -> <<"struct", "X", <<"F", "int", "">>>>
      [] t = "Y" -> <<"struct", "Y", <<"G", "bool", "">>, <<"F", "string", "+">>>>
      [] t = "W" -> <<"struct", "W", <<"F", "Z", "">>>>
      [] t = "V" -> <<"struct", "V", <<"G", "int", "">>, <<"F", "[]int", "">>>>
      [] t = "M" -> <<"struct", "M", <<"F", "map[string]int", "">>>>
      [] t = "R" -> <<"struct", "R", <<"A", "string", "">>, <<"ReqMap", "map[string]int", "+">>,
                        <<"ReqInt", "int", "+">>, <<"G", "bool", "+">>>>
      \* the field T collides with the struct T of the field Sub
      [] t = "Bad" -> <<"struct", "Bad", <<"A", "string", "">>, <<"Sub", "T", "">>,
                          <<"T", "int", "">>>>
      \* a field named as the struct T, which the type does not contain
      [] t = "FT" -> <<"struct", "FT", <<"T", "int", "">>>>
      \* a second type whose Name() is "T" (a type T local to another function)
      [] t = "T2" -> <<"struct", "T", <<"B", "int", "">>>>
      [] t = "W2" -> <<"struct", "W2", <<"Subs", "[]T2", "">>>>
      [] t = "WY" -> <<"struct", "WY", <<"Ys", "[]Y", "">>>>
      [] t = "WM" -> <<"struct", "WM", <<"Xs", "map[string]X", "">>>>
      [] t = "MA" -> <<"struct", "MA", <<"F", "map[string]interface {}", "">>>>
      \* a tag that is none of "", "-" and "+"
      [] t = "Unk" -> <<"struct", "Unk", <<"F", "int", "">>, <<"A", "string", "x">>>>
      \* ignored and unexported fields: of the name and type of a struct, of an anonymous
      \* struct type, of a type with a TStructSet that is not accepted
      [] t = "Ig" -> <<"struct", "Ig", <<"F", "int", "">>, <<"T", "T", "-">>>>
      [] t = "IgU" -> <<"struct", "IgU", <<"F", "int", "">>, <<"sub", "WrapS", "", "unexported">>,
                          <<"req", "int", "+", "unexported">>>>
      [] t = "IgBad" -> <<"struct", "IgBad", <<"Anon", "struct { A int }", "-">>,
                            <<"H", "Zv", "-">>, <<"F", "int", "">>,
                            <<"Xs", "[]struct { A int }", "-">>>>
      \* anonymous struct types
      [] t = "struct { A int }" -> <<"struct", "", <<"A", "int", "">>>>
      [] t = "AnonF" -> <<"struct", "AnonF", <<"X", "struct { A int }", "">>>>
      [] t = "AnonS" -> <<"struct", "AnonS", <<"F", "int", "">>,
                            <<"Xs", "[]struct { A int }", "">>>>
      [] t = "AnonM" -> <<"struct", "AnonM", <<"M", "map[string]struct { A int }", "">>>>
      [] t = "AnonK" -> <<"struct", "AnonK", <<"M", "map[struct { A int }]int", "">>>>
      [] t = "AnonN" -> <<"struct", "AnonN", <<"A", "string", "">>, <<"Inner", "AnonF", "">>>>
      \* fields with a TStructSet method that is not accepted
      [] t = "HR" -> <<"struct", "HR", <<"F", "Zr", "">>>>
      [] t = "HV" -> <<"struct", "HV", <<"F", "Zv", "">>>>
      [] t = "HVR" -> <<"struct", "HVR", <<"F", "Zvr", "">>>>
      \* the required fields of the type R of the tests, on two structs
      [] t = "RZ" -> <<"struct", "RZ", <<"NotReq", "string", "">>, <<"ReqInt", "int", "+">>,
                         <<"ReqZStr", "Z", "+">>, <<"ReqStruct", "T", "+">>>>
      [] t = "RC" -> <<"struct", "RC", <<"ReqSlice", "[]int", "+">>,
                         <<"ReqMap", "map[string]int", "+">>>>
      [] t = "PS" -> <<"struct", "PS", <<"G", "bool", "">>, <<"F", "int", "">>,
                         <<"Sub", "T", "">>>>
      \* structs that contain themselves: in a slice, in a map, through another struct
      [] t = "Node" -> <<"struct", "Node", <<"A", "string", "">>, <<"Subs", "[]Node", "">>>>
      [] t = "[]Node" -> <<"slice", "", "Node", "", "none">>
      [] t = "MNode" -> <<"struct", "MNode", <<"Data", "map[string]MNode", "">>>>
      [] t = "map[string]MNode" -> <<"map", "", "MNode", "string", "none">>
      [] t = "P" -> <<"struct", "P", <<"B", "int", "">>, <<"Data", "map[string]Q", "">>>>
      [] t = "map[string]Q" -> <<"map", "", "Q", "string", "none">>
      [] t = "Q" -> <<"struct", "Q", <<"List", "[]P", "">>>>
      [] t = "[]P" -> <<"slice", "", "P", "", "none">>
      \* the same with a required field
      [] t = "RNode" -> <<"struct", "RNode", <<"F", "string", "+">>,
                            <<"Subs", "[]RNode", "">>>>
      [] t = "[]RNode" -> <<"slice", "", "RNode", "", "none">>

\* the description a declaration d gives
Describe(d) ==
    IF d[1] = "struct"
    THEN Struct(d[2], [i \in 1..(Len(d) - 2) |-> Fld(d[i + 2])])
    ELSE NonStruct(d[1], d[2], d[3], d[4], d[5])

\* the types of the model
TypeNames ==
    {"int", "string", "bool", "interface {}", "Z", "Zr", "Zv", "Zvr", "*Z", "[]int",
     "[]struct { A int }", "map[string]struct { A int }", "map[struct { A int }]int",
     "[]T2", "[]Y", "map[string]int", "map[string]X", "map[string]interface {}", "T", "S",
     "WrapS", "X", "Y", "W", "V", "M", "R", "Bad", "FT", "T2", "W2", "WY", "WM", "MA",
     "Unk", "Ig", "IgU", "IgBad", "struct { A int }", "AnonF", "AnonS", "AnonM", "AnonK",
     "AnonN", "HR", "HV", "HVR", "RZ", "RC", "PS", "Node", "[]Node", "MNode",
     "map[string]MNode", "P", "map[string]Q", "Q", "[]P", "RNode", "[]RNode"}

\* the descriptions of the types
TypeTable == [t \in TypeNames |-> Describe(TypeDecl(t))]

\* the description of the type called t
TypeInfo(t) == TypeTable[t]

Kind(t) == TypeInfo(t).kind

Name(t) == TypeInfo(t).name

Fields(t) == TypeInfo(t).fields

NumField(t) == Len(Fields(t))

(***************************************************************************)
(* reflect.Value                                                           *)
(***************************************************************************)
\* F(x), with x computed once: statements run in sequence, each on the result of the last
Then(x, F(_)) == CHOOSE y \in {F(v) : v \in {x}} : TRUE

Val(t, v) == [t |-> t, v |-> v]

RECURSIVE Zero(_)
Zero(t) ==
    CASE Kind(t) = "int" -> Val(t, 0)
      [] Kind(t) = "string" -> Val(t, "")
      [] Kind(t) = "bool" -> Val(t, FALSE)
      [] Kind(t) = "slice" -> Val(t, <<>>)
      [] Kind(t) = "map" -> Val(t, [alloc |-> FALSE, m |-> <<>>])
      [] Kind(t) = "struct" -> Val(t, [i \in 1..NumField(t) |-> Zero(Fields(t)[i].typ)])

\* a value passed through an interface-typed slot (a field of the template's dot)
Iface(x) == Val("interface {}", <<x>>)

\* interface values are left wrapped
devirt_Identity(x) == x

devirt(x) == IF Kind(x.t) = "interface" THEN x.v[1] ELSE x

devirtAll(s) == [i \in 1..Len(s) |-> devirt(s[i])]

\* reflect.Type.AssignableTo among the model's types
AssignableTo(src, dst) == src = dst \/ Kind(dst) = "interface"

\* string(rune(i))
RuneString(i) ==
    CASE i = 0 -> "\\x00"
      [] i = 1 -> "\\x01"
      [] i = 2 -> "\\x02"
      [] i = 3 -> "\\x03"
      [] i = 4 -> "\\x04"
      [] OTHER -> "\\uFFFD"

\* reflect.Value.ConvertibleTo among the model's types
ConvertibleTo(src, dst) ==
    \/ src = dst
    \/ Kind(dst) = "interface"
    \/ Kind(src) = "int" /\ Kind(dst) \in {"int", "string"}
    \/ Kind(src) = "string" /\ Kind(dst) = "string"
    \/ Kind(src) = "bool" /\ Kind(dst) = "bool"

\* reflect.Value.Convert, for a convertible value
Convert(x, dst) ==
    CASE x.t = dst -> x
      [] Kind(dst) = "interface" -> Iface(x)
      [] Kind(x.t) = "int" /\ Kind(dst) = "string" -> Val(dst, RuneString(x.v))
      [] OTHER -> Val(dst, x.v)

(***************************************************************************)
(* Applying an applyFn.  The outcome of a call that may panic is           *)
(* [ok |-> it returned, dst |-> the target afterwards, msg |-> the panic]. *)
(***************************************************************************)
Done(dst) == [ok |-> TRUE, dst |-> dst, msg |-> ""]

Panic(dst, msg) == [ok |-> FALSE, dst |-> dst, msg |-> msg]

\* didMarkFieldAsSet: v is the sentinel map; the apply function must stop
didMarkFieldAsSet(v, name) == v.t = fieldsAreUnsetType

\* didMarkFieldAsSet: delete(m, name)
MarkFieldAsSet(v, name) == Val(v.t, v.v \ {name})

\* the method TStructSet of *Z: *z = "z" + Z(x); method.Func.Call panics on a
\* wrong argument count or an unassignable argument
CallTStructSet(typ, args) ==
    IF Len(args) = 1 /\ AssignableTo(args[1].t, "string")
    THEN Done(Val(typ, "z" \o args[1].v))
    ELSE Panic(Zero(typ), "reflect: Call with wrong arguments")

\* dst.FieldByIndex(f.Index) exists
HasField(dst, idx) == Kind(dst.t) = "struct" /\ idx <= NumField(dst.t)

\* the type of dst.FieldByIndex(f.Index)
FieldType(dst, idx) == Fields(dst.t)[idx].typ

\* dst with its field idx set to x
SetField(dst, idx, x) == Val(dst.t, [dst.v EXCEPT ![idx] = x])

\* convertAndSet(dst.FieldByIndex(f.Index), src)
convertAndSet(dst, idx, src) ==
    IF ConvertibleTo(src.t, FieldType(dst, idx))
    THEN Done(SetField(dst, idx, Convert(src, FieldType(dst, idx))))
    ELSE Panic(dst, "reflect.Value.Convert: value cannot be converted")

\* the applyFn of a field with a TStructSet method
ApplyHook(f, name, args, dst) ==
    LET ftyp == Fields(f.owner)[f.idx].typ
        x == CallTStructSet(ftyp, devirtAll(args))
    IN  IF ~x.ok THEN Panic(dst, x.msg)
        ELSE IF ~HasField(dst, f.idx) THEN Panic(dst, "reflect: Field index out of range")
        ELSE convertAndSet(dst, f.idx, x.dst)

\* f.SetMapIndex(k, e) on the payload of a map of type ftyp
SetMapIndex(ftyp, mp, k, e) ==
    IF AssignableTo(k.t, TypeInfo(ftyp).key) /\ AssignableTo(e.t, TypeInfo(ftyp).elem)
    THEN [ok |-> TRUE, mp |-> [alloc |-> TRUE, m |-> (k :> e) @@ mp.m]]
    ELSE [ok |-> FALSE, mp |-> mp]

\* for i := 0; i < len(args); i += 2 { f.SetMapIndex(devirt(k), devirt(e)) }
RECURSIVE SetPairs(_, _, _, _)
SetPairs(ftyp, mp, args, i) ==
    IF i > Len(args) THEN [ok |-> TRUE, mp |-> mp]
    ELSE Then(SetMapIndex(ftyp, mp, devirt(args[i]), devirt(args[i + 1])),
              LAMBDA r : IF r.ok THEN SetPairs(ftyp, r.mp, args, i + 2) ELSE r)

\* the map argument's entries put in place of the field's
CopyElems_Replace(mp, src, ks) == [alloc |-> TRUE, m |-> src]

\* the map argument's entries copied over, in the order of the keys ks
RECURSIVE CopyElems(_, _, _)
CopyElems(mp, src, ks) ==
    IF ks = {} THEN mp
    ELSE Then(CHOOSE k \in ks : TRUE,
              LAMBDA k : Then([alloc |-> TRUE, m |-> (k :> src[k]) @@ mp.m],
                              LAMBDA mp2 : CopyElems(mp2, src, ks \ {k})))

\* a map step that starts from a fresh map instead of the field's map
ApplyMap_Replace(f, name, args, dst) ==
    IF ~HasField(dst, f.idx) \/ Kind(FieldType(dst, f.idx)) # "map" \/ Len(args) % 2 # 0
    THEN Panic(dst, "not a list of pairs for a map field")
    ELSE LET ftyp == FieldType(dst, f.idx)
             r == SetPairs(ftyp, [alloc |-> TRUE, m |-> <<>>], args, 1)
         IN  IF r.ok THEN Done(SetField(dst, f.idx, Val(ftyp, r.mp)))
             ELSE Panic(dst, "reflect.Value.SetMapIndex: value is not assignable")

\* a map step that stores its pairs before it looks at the argument count
ApplyMap_PairsFirst(f, name, args, dst) ==
    LET ftyp == FieldType(dst, f.idx)
        old == dst.v[f.idx]
        mp == IF old.v.alloc THEN old.v ELSE [alloc |-> TRUE, m |-> <<>>]
        r == SetPairs(ftyp, mp, SubSeq(args, 1, 2 * (Len(args) \div 2)), 1)
    IN  IF Len(args) % 2 # 0
        THEN Panic(SetField(dst, f.idx, Val(ftyp, r.mp)), "odd number of args to " \o name)
        ELSE Done(SetField(dst, f.idx, Val(ftyp, r.mp)))

\* the applyFn of a map field
ApplyMap(f, name, args, dst) ==
    IF ~HasField(dst, f.idx) THEN Panic(dst, "reflect: Field index out of range")
    ELSE
    LET ftyp == FieldType(dst, f.idx)
        old == dst.v[f.idx]
    IN  IF Kind(ftyp) # "map"
        THEN IF old = Zero(ftyp) \/ Len(args) > 0
             THEN Panic(dst, "reflect: call of a map method on a non-map Value")
             ELSE Done(dst)
        ELSE
        LET mp == IF old.v.alloc THEN old.v ELSE [alloc |-> TRUE, m |-> <<>>]
            arg == devirt(args[1])
            direct == /\ Len(args) = 1
                      /\ Kind(arg.t) = "map"
                      /\ AssignableTo(TypeInfo(arg.t).key, TypeInfo(ftyp).key)
                      /\ AssignableTo(TypeInfo(arg.t).elem, TypeInfo(ftyp).elem)
        IN  IF direct
            THEN Done(SetField(dst, f.idx, Val(ftyp, CopyElems(mp, arg.v.m, DOMAIN arg.v.m))))
            ELSE IF Len(args) % 2 # 0
            THEN Panic(SetField(dst, f.idx, Val(ftyp, mp)), "odd number of args to " \o name)
            ELSE LET r == SetPairs(ftyp, mp, args, 1)
                 IN  IF r.ok THEN Done(SetField(dst, f.idx, Val(ftyp, r.mp)))
                     ELSE Panic(SetField(dst, f.idx, Val(ftyp, r.mp)),
                                "reflect.Value.SetMapIndex: value is not assignable")

\* every argument appended as one element
RECURSIVE AppendArgs_NoSplice(_, _, _, _)
AppendArgs_NoSplice(ftyp, elems, args, i) ==
    IF i > Len(args) THEN [ok |-> TRUE, elems |-> elems]
    ELSE Then(Append(elems, args[i]), LAMBDA e : AppendArgs_NoSplice(ftyp, e, args, i + 1))

\* for _, arg := range devirtAll(args): AppendSlice or Append
RECURSIVE AppendArgs(_, _, _, _)
AppendArgs(ftyp, elems, args, i) ==
    IF i > Len(args) THEN [ok |-> TRUE, elems |-> elems]
    ELSE IF AssignableTo(args[i].t, ftyp)
    THEN Then(elems \o args[i].v, LAMBDA e : AppendArgs(ftyp, e, args, i + 1))
    ELSE IF AssignableTo(args[i].t, TypeInfo(ftyp).elem)
    THEN Then(Append(elems, args[i]), LAMBDA e : AppendArgs(ftyp, e, args, i + 1))
    ELSE [ok |-> FALSE, elems |-> elems]

\* the applyFn of a slice field
ApplySlice(f, name, args, dst) ==
    IF ~HasField(dst, f.idx) THEN Panic(dst, "reflect: Field index out of range")
    ELSE
    LET ftyp == FieldType(dst, f.idx)
    IN  IF Len(args) = 0 THEN Done(dst)
        ELSE IF Kind(ftyp) # "slice" THEN Panic(dst, "reflect.Append of non-slice")
        ELSE LET r == AppendArgs(ftyp, dst.v[f.idx].v, devirtAll(args), 1)
             IN  IF r.ok THEN Done(SetField(dst, f.idx, Val(ftyp, r.elems)))
                 ELSE Panic(SetField(dst, f.idx, Val(ftyp, r.elems)),
                            "reflect.Append: value is not assignable")

\* a plain Set that takes no argument for true whatever the type of the field
ApplyPlain_ZeroIsTrue(f, name, args, dst) ==
    IF Len(args) > 1 THEN Panic(dst, "wrong number of args to " \o name \o ", expected 1")
    ELSE convertAndSet(dst, f.idx, IF Len(args) = 0 THEN Val("bool", TRUE) ELSE devirt(args[1]))

\* everything else: a plain Set
ApplyPlain(f, name, args, dst) ==
    IF ~HasField(dst, f.idx) THEN Panic(dst, "reflect: Field index out of range")
    ELSE
    LET valid == \/ Len(args) = 1
                 \/ Len(args) = 0 /\ Kind(FieldType(dst, f.idx)) = "bool"
        x == IF Len(args) = 0 THEN Val("bool", TRUE) ELSE args[1]
    IN  IF ~valid THEN Panic(dst, "wrong number of args to " \o name \o ", expected 1")
        ELSE convertAndSet(dst, f.idx, devirt(x))

\* the branch genSavedApplyFnForField takes for the field f
FieldShape(f) ==
    LET ftyp == Fields(f.owner)[f.idx].typ
    IN  IF TypeInfo(ftyp).hook # "none" THEN "hook"
        ELSE IF Kind(ftyp) = "map" THEN "map"
        ELSE IF Kind(ftyp) = "slice" THEN "slice"
        ELSE "plain"

\* an applyFn that marks its field as set only when it has arguments
ApplyField_MarksArgs(f, name, args, dst) ==
    IF didMarkFieldAsSet(dst, name)
    THEN IF args = <<>> THEN Done(dst) ELSE Done(MarkFieldAsSet(dst, name))
    ELSE CASE FieldShape(f) = "hook" -> ApplyHook(f, name, args, dst)
           [] FieldShape(f) = "map" -> ApplyMap(f, name, args, dst)
           [] FieldShape(f) = "slice" -> ApplySlice(f, name, args, dst)
           [] OTHER -> ApplyPlain(f, name, args, dst)

\* genSavedApplyFnForField(f, name)(args...)(dst)
ApplyField(f, name, args, dst) ==
    IF didMarkFieldAsSet(dst, name) THEN Done(MarkFieldAsSet(dst, name))
    ELSE CASE FieldShape(f) = "hook" -> ApplyHook(f, name, args, dst)
           [] FieldShape(f) = "map" -> ApplyMap(f, name, args, dst)
           [] FieldShape(f) = "slice" -> ApplySlice(f, name, args, dst)
           [] OTHER -> ApplyPlain(f, name, args, dst)

(***************************************************************************)
(* FuncMap entries.                                                        *)
(*   a constructor  func(args ...applyFn) T  for the struct type rt, with  *)
(*     the map required it has closed over;                                *)
(*   a savedApplyFn named after a field: the dispatch closures that        *)
(*     setSavedApplyFn has stacked (newest first), each guarded by a       *)
(*     struct type, over the first function registered under the name;     *)
(*   a function of the user.                                               *)
(* A field f is [owner |-> struct type, idx |-> position].                 *)
(***************************************************************************)
Ctor(T, rt, required) == [kind |-> "ctor", T |-> T, rt |-> rt, required |-> required]

Saved(name, guarded, fn) ==
    [kind |-> "savedApplyFn", name |-> name, guarded |-> guarded, base |-> fn]

\* m["S"] = func(x any) error { return nil }
UserFn == [kind |-> "userfn"]

\* m["T"] = func(args ...applyFn) U { var u U; return u }: a function of the user that
\* has the type of a constructor
UserCtor(U) == [kind |-> "ctor", T |-> U, rt |-> U, required |-> {}, user |-> TRUE]

\* the applyFn a savedApplyFn returns: the closure over its args
Step(fn, args) == [fn |-> fn, args |-> args]

\* a dispatch closure that does not look at the type of dst
Dispatch_Newest(e, i, args, dst) ==
    IF didMarkFieldAsSet(dst, e.name) THEN Done(MarkFieldAsSet(dst, e.name))
    ELSE IF e.guarded # <<>> THEN ApplyField(e.guarded[1].fn, e.name, args, dst)
    ELSE ApplyField(e.base, e.name, args, dst)

\* the closure setSavedApplyFn installs, from its level i down to the first function
RECURSIVE Dispatch(_, _, _, _)
Dispatch(e, i, args, dst) ==
    IF i > Len(e.guarded) THEN ApplyField(e.base, e.name, args, dst)
    ELSE IF didMarkFieldAsSet(dst, e.name) THEN Done(MarkFieldAsSet(dst, e.name))
    ELSE IF dst.t = e.guarded[i].typ THEN ApplyField(e.guarded[i].fn, e.name, args, dst)
    ELSE Dispatch(e, i + 1, args, dst)

\* apply(v) for an applyFn of the FuncMap
Apply(step, dst) == Dispatch(step.fn, 1, step.args, dst)

\* the applyFn step as the call apply(dst) leaves it: the closure of a field with a
\* TStructSet method assigns to the args it has captured, args = append({x}, dvArgs...),
\* before it calls the method; a dispatch closure calls fn(args...) anew every time
StepAfter(step, dst) ==
    IF \/ didMarkFieldAsSet(dst, step.fn.name)
       \/ step.fn.guarded # <<>>
       \/ FieldShape(step.fn.base) # "hook"
    THEN step
    ELSE LET ftyp == Fields(step.fn.base.owner)[step.fn.base.idx].typ
             x == Val("*" \o ftyp, <<CallTStructSet(ftyp, devirtAll(step.args)).dst>>)
         IN  Step(step.fn, <<x>> \o devirtAll(step.args))

\* for _, apply := range args { apply(v) }, stopping at the first panic
RECURSIVE ApplyAll(_, _, _)
ApplyAll(steps, i, dst) ==
    IF i > Len(steps) THEN Done(dst)
    ELSE Then(Apply(steps[i], dst),
              LAMBDA r : IF r.ok THEN ApplyAll(steps, i + 1, r.dst) ELSE r)

(***************************************************************************)
(* The constructor.  Its maps live in a small heap: "required" is the map  *)
(* the closure captured, "r2" the clone of one invocation.                 *)
(***************************************************************************)
\* the order of the field names in a byte-wise comparison of strings
NameOrder ==
    <<"A", "B", "Data", "F", "G", "Inner", "List", "NotReq", "ReqInt", "ReqMap", "ReqSlice",
      "ReqStruct", "ReqZStr", "Sub", "Subs", "T", "URL", "Xs", "Ys", "ZStr">>

NameRank(n) == CHOOSE i \in 1..Len(NameOrder) : NameOrder[i] = n

\* a < b for two strings rt.Name()+"."+k of one constructor: the prefix is shared
StringLess(a, b) == NameRank(a.field) < NameRank(b.field)

\* rt.Name()+"."+k
Qualified(q) == q.schema \o "." \o q.field

\* missing left in the order the map was ranged over
SortStrings_Unsorted(s) == s

\* sort.Strings(missing), by insertion
RECURSIVE SortedInsert(_, _)
SortedInsert(s, x) ==
    IF s = <<>> THEN <<x>>
    ELSE IF StringLess(x, Head(s)) THEN <<x>> \o s
    ELSE <<Head(s)>> \o SortedInsert(Tail(s), x)

RECURSIVE SortStrings(_)
SortStrings(s) ==
    IF s = <<>> THEN <<>>
    ELSE Then(SortStrings(Tail(s)), LAMBDA t : SortedInsert(t, Head(s)))

\* strings.Join(missing, ", ")
RECURSIVE Join(_)
Join(s) ==
    IF s = <<>> THEN ""
    ELSE IF Len(s) = 1 THEN Qualified(s[1])
    ELSE Qualified(s[1]) \o ", " \o Join(Tail(s))

\* the steps mark the captured map itself
CloneRequired_Alias(heap) == [ref |-> "required", heap |-> heap]

\* r2 := make(fieldsAreUnset, len(required)); for k, v := range required { r2[k] = v }
CloneRequired(heap) == [ref |-> "r2", heap |-> [heap EXCEPT !["r2"] = heap["required"]]]

\* for _, apply := range args { apply(rqv) }: rqv refers to the map heap[ref]
RECURSIVE MarkAll(_, _, _, _)
MarkAll(steps, i, heap, ref) ==
    IF i > Len(steps) THEN heap
    ELSE Then(Apply(steps[i], Val(fieldsAreUnsetType, heap[ref])),
              LAMBDA r : Then([heap EXCEPT ![ref] = r.dst.v],
                              LAMBDA h : MarkAll(steps, i + 1, h, ref)))

\* for k := range r2 { missing = append(missing, rt.Name()+"."+k) }, the map
\* being ranged over in the order iter
RECURSIVE GatherMissing(_, _, _)
GatherMissing(rt, r2, iter) ==
    IF iter = <<>> THEN <<>>
    ELSE IF Head(iter) \in r2
    THEN <<[schema |-> Name(rt), field |-> Head(iter)]>> \o GatherMissing(rt, r2, Tail(iter))
    ELSE GatherMissing(rt, r2, Tail(iter))

\* the outcome of a constructor invocation
\* (dst is the struct under construction as the call left it, returned or not)
CtorResult(ok, T, val, msg, missing, required, dst) ==
    [ok |-> ok, T |-> T, val |-> val, msg |-> msg, missing |-> missing, required |-> required,
     dst |-> dst]

\* a constructor that sets the fields first and looks for missing ones afterwards
CallCtor_ApplyFirst(c, args, iter) ==
    Then(ApplyAll(args, 1, Zero(c.rt)), LAMBDA r :
    Then(MarkAll(args, 1, [required |-> c.required, r2 |-> c.required], "r2")["r2"], LAMBDA r2 :
        IF ~r.ok THEN CtorResult(FALSE, c.T, Zero(c.rt), r.msg, <<>>, c.required, r.dst)
        ELSE IF r2 # {}
        THEN Then(SortStrings(GatherMissing(c.rt, r2, iter)), LAMBDA missing :
                  CtorResult(FALSE, c.T, Zero(c.rt),
                             Join(missing) \o " required but not provided",
                             missing, c.required, r.dst))
        ELSE CtorResult(TRUE, c.T, r.dst, "", <<>>, c.required, r.dst)))

\* fnmap[rt.Name()] = func(args ...applyFn) T {...}, called with args; iter is the
\* iteration order of the map r2.  required is the captured map after the call.
CallCtor(c, args, iter) ==
    Then(Zero(c.rt), LAMBDA v :
    Then([required |-> c.required, r2 |-> {}], LAMBDA heap0 :
    Then(CloneRequired(heap0), LAMBDA cl :
    Then(IF c.required # {} THEN MarkAll(args, 1, cl.heap, cl.ref) ELSE heap0, LAMBDA heap1 :
    Then(IF c.required # {} THEN heap1[cl.ref] ELSE {}, LAMBDA r2 :
        IF r2 # {}
        THEN Then(SortStrings(GatherMissing(c.rt, r2, iter)), LAMBDA missing :
                  CtorResult(FALSE, c.T, v, Join(missing) \o " required but not provided",
                             missing, heap1["required"], v))
        ELSE Then(ApplyAll(args, 1, v), LAMBDA r :
                  CtorResult(r.ok, c.T, IF r.ok THEN r.dst ELSE v, r.msg, <<>>,
                             heap1["required"], r.dst)))))))

(***************************************************************************)
(* Registration.  A FuncMap is a function from the names bound to their    *)
(* entries.  The outcome of addStructFuncs is the error it returns ("nil", *)
(* "error", or "panic" when it does not return) and the FuncMap it leaves. *)
(***************************************************************************)
Has(m, k) == k \in DOMAIN m

\* m[k] = v
Put(m, k, v) == (k :> v) @@ m

\* copyFuncMap(dst, src)
copyFuncMap(dst, src) == src @@ dst

Ret(e, m) == [err |-> e, fnmap |-> m]

\* some order in which a map with the keys s is ranged over
RECURSIVE SomeOrder(_)
SomeOrder(s) ==
    IF s = {} THEN <<>>
    ELSE Then(CHOOSE k \in s : TRUE, LAMBDA k : <<k>> \o SomeOrder(s \ {k}))

\* registeredFuncMatches[T](x, rt): "true", "false", or "panic" when the call of x panics
registeredFuncMatches(T, x, rt) ==
    IF x.kind = "ctor" /\ x.T = T THEN "true"
    \* a user function that is not func(args ...applyFn) U; a savedApplyFn is variadic
    \* with one result, but in.Elem() is reflect.Value
    ELSE IF x.kind # "ctor" THEN "false"
    ELSE Then(CallCtor(x, <<>>, SomeOrder(x.required)),
              LAMBDA s : IF ~s.ok THEN "panic"
                         ELSE IF s.val.t = rt THEN "true" ELSE "false")

\* a required map that holds every field whose name is required in some struct
RequiredOf_ByName(rt) ==
    {Fields(rt)[i].name : i \in {j \in 1..NumField(rt) :
        \E u \in StructTypes : \E k \in 1..NumField(u) :
            Fields(u)[k].name = Fields(rt)[j].name /\ Fields(u)[k].tag = "+"}}

\* the required map addStructFuncs builds (nil when it stays empty)
RequiredOf(rt) ==
    {Fields(rt)[i].name : i \in {j \in 1..NumField(rt) :
                                    Fields(rt)[j].exported /\ Fields(rt)[j].tag = "+"}}

\* genSavedApplyFnForField that looks at the results of the method only
genSavedApplyFnForFieldErr_Results(f) ==
    TypeInfo(Fields(f.owner)[f.idx].typ).hook \in {"ptr_returns", "value_returns"}

\* genSavedApplyFnForField(f, name): the error it returns
genSavedApplyFnForFieldErr(f) ==
    LET hook == TypeInfo(Fields(f.owner)[f.idx].typ).hook
    IN  hook \in {"ptr_returns", "value", "value_returns"}

\* setSavedApplyFn that overwrites an entry that is no savedApplyFn
setSavedApplyFn_Overwrite(m, name, typ, fn) ==
    IF ~Has(m, name) \/ m[name].kind # "savedApplyFn"
    THEN Ret("nil", Put(m, name, Saved(name, <<>>, fn)))
    ELSE Ret("nil", Put(m, name, Saved(name, <<[typ |-> typ, fn |-> fn]>> \o m[name].guarded,
                                       m[name].base)))

\* setSavedApplyFn(fnmap, name, typ, fn)
setSavedApplyFn(m, name, typ, fn) ==
    IF ~Has(m, name) THEN Ret("nil", Put(m, name, Saved(name, <<>>, fn)))
    ELSE IF m[name].kind # "savedApplyFn" THEN Ret("error", m)
    ELSE Ret("nil", Put(m, name, Saved(name, <<[typ |-> typ, fn |-> fn]>> \o m[name].guarded,
                                       m[name].base)))

\* only the type of a struct field is registered, not the elements of slices and maps
NestedStructs_FieldOnly(ftyp) == IF Kind(ftyp) = "struct" THEN <<ftyp>> ELSE <<>>

\* the struct types addStructFuncs[reflect.Value] is called with for a field of type ftyp
NestedStructs(ftyp) ==
    CASE Kind(ftyp) = "struct" -> <<ftyp>>
      [] Kind(ftyp) = "slice" -> SelectSeq(<<TypeInfo(ftyp).elem>>, LAMBDA e : Kind(e) = "struct")
      [] Kind(ftyp) = "map" -> SelectSeq(<<TypeInfo(ftyp).key, TypeInfo(ftyp).elem>>,
                                         LAMBDA e : Kind(e) = "struct")
      [] OTHER -> <<>>

RECURSIVE addStructFuncs(_, _, _)
RECURSIVE addNested(_, _)
RECURSIVE addFields(_, _, _)

\* the second loop of addStructFuncs, were it to skip unexported fields only
RECURSIVE addFields_NoIgnore(_, _, _)
addFields_NoIgnore(rt, i, m) ==
    IF i > NumField(rt) THEN Ret("nil", m)
    ELSE LET f == Fields(rt)[i]
         IN  IF ~f.exported THEN addFields_NoIgnore(rt, i + 1, m)
             ELSE Then(addNested(NestedStructs(f.typ), m), LAMBDA n :
                      IF n.err # "nil" THEN n
                      ELSE IF genSavedApplyFnForFieldErr([owner |-> rt, idx |-> i])
                      THEN Ret("error", n.fnmap)
                      ELSE Then(setSavedApplyFn(n.fnmap, f.name, rt, [owner |-> rt, idx |-> i]),
                                LAMBDA r : IF r.err # "nil" THEN r
                                           ELSE addFields_NoIgnore(rt, i + 1, r.fnmap)))

\* addStructFuncs that replaces the constructor it finds, whatever T is
addStructFuncs_Replace(T, rt, m) ==
    IF Name(rt) = "" THEN Ret("error", m)
    ELSE Then(IF Has(m, Name(rt)) THEN registeredFuncMatches(T, m[Name(rt)], rt)
              ELSE "absent",
              LAMBDA match :
                  IF match = "panic" THEN Ret("panic", m)
                  ELSE IF match = "false" THEN Ret("error", m)
                  ELSE Then(Put(m, Name(rt), Ctor(T, rt, RequiredOf(rt))),
                            LAMBDA m2 : addFields(rt, 1, m2)))

\* addStructFuncs[T](rt, fnmap)
addStructFuncs(T, rt, m) ==
    IF Name(rt) = "" THEN Ret("error", m)
    ELSE Then(IF Has(m, Name(rt)) THEN registeredFuncMatches(T, m[Name(rt)], rt)
              ELSE "absent",
              LAMBDA match :
                  IF match = "panic" THEN Ret("panic", m)
                  ELSE IF match = "false" THEN Ret("error", m)
                  ELSE IF match = "true" /\ T = reflectValueType THEN Ret("nil", m)
                  ELSE Then(Put(m, Name(rt), Ctor(T, rt, RequiredOf(rt))),
                            LAMBDA m2 : addFields(rt, 1, m2)))

\* the calls addStructFuncs[reflect.Value](elem, fnmap) for one field
addNested(ts, m) ==
    IF ts = <<>> THEN Ret("nil", m)
    ELSE Then(addStructFuncs(reflectValueType, Head(ts), m),
              LAMBDA r : IF r.err # "nil" THEN r ELSE addNested(Tail(ts), r.fnmap))

\* the second loop of addStructFuncs over the fields of rt, from field i on
addFields(rt, i, m) ==
    IF i > NumField(rt) THEN Ret("nil", m)
    ELSE LET f == Fields(rt)[i]
         IN  IF ~f.exported \/ f.tag = "-" THEN addFields(rt, i + 1, m)
             ELSE Then(addNested(NestedStructs(f.typ), m), LAMBDA n :
                      IF n.err # "nil" THEN n
                      ELSE IF genSavedApplyFnForFieldErr([owner |-> rt, idx |-> i])
                      THEN Ret("error", n.fnmap)
                      ELSE Then(setSavedApplyFn(n.fnmap, f.name, rt, [owner |-> rt, idx |-> i]),
                                LAMBDA r : IF r.err # "nil" THEN r
                                           ELSE addFields(rt, i + 1, r.fnmap)))

\* AddFuncMap that adds the funcs to base itself, not to a copy
AddFuncMapResult_NoCopy(T, b) ==
    IF Kind(T) # "struct" THEN [err |-> "error", base |-> b, fnmap |-> <<>>]
    ELSE Then(addStructFuncs(T, T, b),
              LAMBDA r : [err |-> r.err, base |-> r.fnmap, fnmap |-> r.fnmap])

\* AddFuncMap[T](base): the error, base afterwards, and the working copy fnmap
AddFuncMapResult(T, b) ==
    IF Kind(T) # "struct" THEN [err |-> "error", base |-> b, fnmap |-> <<>>]
    ELSE Then(copyFuncMap(<<>>, b), LAMBDA m :
         Then(addStructFuncs(T, T, m), LAMBDA r :
              [err |-> r.err,
               base |-> IF r.err = "nil" THEN copyFuncMap(b, r.fnmap) ELSE b,
               fnmap |-> r.fnmap]))

(***************************************************************************)
(* The program: a caller registers types into base, binds functions of its *)
(* own, and a template invokes constructors with applyFns.                 *)
(***************************************************************************)
NoOut == CtorResult(TRUE, "", Val("bool", FALSE), "", <<>>, {}, Val("bool", FALSE))

\* the type arguments AddFuncMap is called with
Roots == StructTypes \cup {"[]int"}

\* the names a caller binds to functions of its own
UserNames == {"T", "F"}

\* the template executions
Procs == {1, 2}

\* no constructor invocation under way
Idle == [pc |-> "idle"]

Init ==
    /\ base = <<>>
    /\ fnmap = <<>>
    /\ err = "none"
    /\ last = [op |-> "init"]
    /\ out = NoOut
    /\ calls = 0
    /\ inv = [p \in Procs |-> Idle]

\* err := tstruct.AddFuncMap[T](base)
AddFuncMap(T) ==
    /\ calls < MaxRegs
    /\ \E r \in {AddFuncMapResult(T, base)} :
           /\ base' = r.base
           /\ fnmap' = r.fnmap
           /\ err' = r.err
    /\ last' = [op |-> "AddFuncMap", T |-> T]
    /\ calls' = calls + 1
    /\ out' = NoOut
    /\ UNCHANGED inv

\* m[name] = func(x any) error { return nil }, for a name not bound yet
BindUser(name) ==
    /\ ~Has(base, name)
    /\ base' = Put(base, name, UserFn)
    /\ last' = [op |-> "BindUser", name |-> name]
    /\ out' = NoOut
    /\ UNCHANGED <<fnmap, err, calls, inv>>

\* m[name] = func(args ...applyFn) U {...}, for the name of U, not bound yet
BindCtor(U) ==
    /\ ~Has(base, Name(U))
    /\ base' = Put(base, Name(U), UserCtor(U))
    /\ last' = [op |-> "BindCtor", name |-> Name(U), U |-> U]
    /\ out' = NoOut
    /\ UNCHANGED <<fnmap, err, calls, inv>>

\* the applyFns of the template calls (name args...) evaluated against the FuncMap b
MkSteps(b, calls_) == [i \in 1..Len(calls_) |-> Step(b[calls_[i].name], calls_[i].args)]

\* every (name args...) calls a savedApplyFn of the FuncMap b
Callable(b, calls_) ==
    \A i \in 1..Len(calls_) :
        Has(b, calls_[i].name) /\ b[calls_[i].name].kind = "savedApplyFn"

\* the permutations of a set, as sequences
Perms(s) == {p \in [1..Cardinality(s) -> s] : \A i, j \in 1..Cardinality(s) : p[i] = p[j] => i = j}

\* the template evaluates (name (f1 args...) (f2 args...) ...)
Construct(name, calls_) ==
    /\ Has(base, name) /\ base[name].kind = "ctor"
    /\ Callable(base, calls_)
    /\ \E iter \in Perms(base[name].required), steps \in {MkSteps(base, calls_)} :
          \E r \in {CallCtor(base[name], steps, iter)} :
              /\ out' = r
              /\ base' = [base EXCEPT ![name].required = r.required]
    /\ last' = [op |-> "Construct", name |-> name, args |-> calls_]
    /\ UNCHANGED <<fnmap, err, calls, inv>>

(***************************************************************************)
(* The body of the constructor (lines 94-138), statement by statement, for *)
(* template executions that run side by side.  An invocation is            *)
(*   pc      "mark": in the loop of lines 108-110, "apply": in the loop of *)
(*           lines 122-124, "done": returned or panicked                   *)
(*   name    the name the constructor was called by                        *)
(*   steps0  the applyFns it was called with                               *)
(*   steps   the same applyFns, as they are now                            *)
(*   i       the position of the loop                                      *)
(*   ref, r2 the map rqv refers to, and the map r2                         *)
(*   v       the struct under construction                                 *)
(*   res     the outcome, prev the outcome of the invocation before it     *)
(*   reused  the applyFns had been applied before                          *)
(***************************************************************************)
\* the map rqv of the invocation p refers to
Rqv(p) == IF inv[p].ref = "r2" THEN inv[p].r2 ELSE base[inv[p].name].required

\* an invocation that hands the captured map itself to the applyFns
Begin_NoClone(c, name, steps0, steps, prev, reused) ==
    [pc |-> IF c.required # {} THEN "mark" ELSE "apply", name |-> name,
     steps0 |-> steps0, steps |-> steps, i |-> 1,
     ref |-> "required", r2 |-> {}, v |-> Zero(c.rt), res |-> NoOut,
     prev |-> prev, reused |-> reused]

\* lines 95-103: v := reflect.New(rt).Elem(), and r2 cloned when required != nil
Begin(c, name, steps0, steps, prev, reused) ==
    Then(CloneRequired([required |-> c.required, r2 |-> {}]), LAMBDA cl :
        [pc |-> IF c.required # {} THEN "mark" ELSE "apply", name |-> name,
         steps0 |-> steps0, steps |-> steps, i |-> 1,
         ref |-> cl.ref, r2 |-> cl.heap["r2"], v |-> Zero(c.rt), res |-> NoOut,
         prev |-> prev, reused |-> reused])

\* the template execution p evaluates (name (f1 args...) ...) up to the first statement
\* of the constructor
Invoke(pr, name, calls_) ==
    /\ inv[pr].pc = "idle"
    /\ Has(base, name) /\ base[name].kind = "ctor"
    /\ Callable(base, calls_)
    /\ \E steps \in {MkSteps(base, calls_)} :
          inv' = [inv EXCEPT ![pr] = Begin(base[name], name, steps, steps, NoOut, FALSE)]
    /\ last' = [op |-> "Invoke", p |-> pr, name |-> name, args |-> calls_]
    /\ UNCHANGED <<base, fnmap, err, out, calls>>

\* {{ $f := (F args...) }}{{ name $f }}{{ name $f }}: the template calls the constructor
\* again, with the applyFns it has passed to the invocation that returned
Reuse(pr) ==
    /\ inv[pr].pc = "done" /\ inv[pr].res.ok /\ ~inv[pr].reused
    /\ inv' = [inv EXCEPT ![pr] = Begin(base[inv[pr].name], inv[pr].name, inv[pr].steps0,
                                        inv[pr].steps, inv[pr].res, TRUE)]
    /\ last' = [op |-> "Reuse", p |-> pr]
    /\ UNCHANGED <<base, fnmap, err, out, calls>>

\* line 109: apply(rqv)
Mark(pr) ==
    /\ inv[pr].pc = "mark" /\ inv[pr].i <= Len(inv[pr].steps)
    /\ \E r \in {Apply(inv[pr].steps[inv[pr].i], Val(fieldsAreUnsetType, Rqv(pr)))} :
          /\ inv' = [inv EXCEPT ![pr].i = @ + 1,
                                ![pr].r2 = IF inv[pr].ref = "r2" THEN r.dst.v ELSE @]
          /\ base' = IF inv[pr].ref = "r2" THEN base
                     ELSE [base EXCEPT ![inv[pr].name].required = r.dst.v]
    /\ last' = [op |-> "Mark", p |-> pr]
    /\ UNCHANGED <<fnmap, err, out, calls>>

\* lines 112-119: panic with the names left in r2, or go on to set the fields
Check(pr) ==
    /\ inv[pr].pc = "mark" /\ inv[pr].i > Len(inv[pr].steps)
    /\ \E iter \in Perms(Rqv(pr)), c \in {base[inv[pr].name]} :
          \E missing \in {SortStrings(GatherMissing(c.rt, Rqv(pr), iter))} :
              inv' = [inv EXCEPT ![pr] =
                        IF Rqv(pr) # {}
                        THEN [@ EXCEPT !.pc = "done",
                                       !.res = CtorResult(FALSE, c.T, Zero(c.rt),
                                                  Join(missing) \o " required but not provided",
                                                  missing, c.required, inv[pr].v)]
                        ELSE [@ EXCEPT !.pc = "apply", !.i = 1]]
    /\ last' = [op |-> "Check", p |-> pr]
    /\ UNCHANGED <<base, fnmap, err, out, calls>>

\* line 123: apply(v)
ApplyStep(pr) ==
    /\ inv[pr].pc = "apply" /\ inv[pr].i <= Len(inv[pr].steps)
    /\ \E r \in {Apply(inv[pr].steps[inv[pr].i], inv[pr].v)}, c \in {base[inv[pr].name]} :
          inv' = [inv EXCEPT ![pr] =
                    [@ EXCEPT !.steps[inv[pr].i] = StepAfter(@, inv[pr].v),
                              !.v = r.dst,
                              !.i = @ + 1,
                              !.pc = IF r.ok THEN "apply" ELSE "done",
                              !.res = IF r.ok THEN @
                                      ELSE CtorResult(FALSE, c.T, Zero(c.rt), r.msg, <<>>,
                                                      c.required, r.dst)]]
    /\ last' = [op |-> "ApplyStep", p |-> pr]
    /\ UNCHANGED <<base, fnmap, err, out, calls>>

\* lines 125-137: return the struct
Return(pr) ==
    /\ inv[pr].pc = "apply" /\ inv[pr].i > Len(inv[pr].steps)
    /\ \E c \in {base[inv[pr].name]} :
          inv' = [inv EXCEPT ![pr].pc = "done",
                             ![pr].res = CtorResult(TRUE, c.T, inv[pr].v, "", <<>>, c.required,
                                                    inv[pr].v)]
    /\ last' = [op |-> "Return", p |-> pr]
    /\ UNCHANGED <<base, fnmap, err, out, calls>>

(***************************************************************************)
(* Spec: a caller binds functions of its own and registers types.          *)
(***************************************************************************)
Next ==
    \/ \E T \in Roots : AddFuncMap(T)
    \/ \E n \in UserNames : BindUser(n)

Spec == Init /\ [][Next]_vars

(***************************************************************************)
(* Properties of registration, under Spec.                                 *)
(***************************************************************************)
\* the fields of t that addStructFuncs does not skip
Registrable(t) ==
    {i \in 1..NumField(t) : Fields(t)[i].exported /\ Fields(t)[i].tag # "-"}

\* the struct types the fields of t contain
Contained(t) ==
    UNION {{NestedStructs(Fields(t)[i].typ)[j] : j \in 1..Len(NestedStructs(Fields(t)[i].typ))} :
           i \in Registrable(t)}

RECURSIVE ReachFrom(_, _)
ReachFrom(todo, seen) ==
    IF todo = {} THEN seen
    ELSE Then(CHOOSE t \in todo : TRUE,
              LAMBDA t : Then(seen \cup {t},
                              LAMBDA s : ReachFrom((todo \cup Contained(t)) \ s, s)))

\* the struct types a registration of T has to register
Reach(T) == ReachFrom({T}, {})

\* the entry e is a constructor of the struct type t
IsCtorOf(e, t) == e.kind = "ctor" /\ e.rt = t

\* the step is a call of AddFuncMap with a struct type
IsAddFuncMap(l) == l.op = "AddFuncMap" /\ Kind(l.T) = "struct"

\* C1: whenever AddFuncMap returns a non-nil error, base holds the same keys bound to
\* the same entries as before the call.
C1_AllOrNothing == [][(last'.op = "AddFuncMap" /\ err' = "error") => base' = base]_vars

\* an AddFuncMap[Bad] that failed at its third field, after the constructor of Bad, the
\* nested struct T and the funcs of the fields A and Sub were put into the working copy
C1_Witness ==
    /\ last.op = "AddFuncMap" /\ last.T = "Bad" /\ err = "error"
    /\ {"Bad", "T", "A", "Sub"} \subseteq DOMAIN fnmap
    /\ DOMAIN base \cap {"Bad", "Sub"} = {}
    /\ base # <<>>

\* W contains A and can be registered on its own
Container(W, A) == A \in Contained(W) /\ AddFuncMapResult(W, <<>>).err = "nil"

\* C5: for every struct A and every struct W that contains A, registering A then W
\* into one FuncMap succeeds, and so does registering W then A.
C5_ReRegistration ==
    [][\A A, W \in StructTypes :
          /\ Container(W, A)
          /\ calls = 1 /\ err = "nil" /\ last.op = "AddFuncMap" /\ last'.op = "AddFuncMap"
          /\ \/ last.T = A /\ last'.T = W
             \/ last.T = W /\ last'.T = A
          => err' = "nil"]_vars

\* C6: if the name of a struct being registered, as the root or nested, is bound to
\* anything but a constructor of that very struct type, registration fails with an error.
C6_NameCollision ==
    [][(/\ IsAddFuncMap(last')
        /\ \E t \in Reach(last'.T) : Has(base, Name(t)) /\ ~IsCtorOf(base[Name(t)], t))
       => err' = "error"]_vars

\* C7: registering a field whose name is bound to a constructor fails, registering a
\* struct whose name is bound to a field's savedApplyFn fails, and so no name of a
\* FuncMap is both the constructor of a struct and a field of a registered struct.
C7_SchemaVsField ==
    [][IsAddFuncMap(last') =>
         /\ (\E t \in Reach(last'.T) : \E i \in Registrable(t) :
                /\ Has(base, Fields(t)[i].name)
                /\ base[Fields(t)[i].name].kind = "ctor") => err' = "error"
         /\ (\E t \in Reach(last'.T) :
                Has(base, Name(t)) /\ base[Name(t)].kind = "savedApplyFn") => err' = "error"
         /\ \A u \in StructTypes : \A i \in Registrable(u) :
                (Has(base', Name(u)) /\ IsCtorOf(base'[Name(u)], u) /\ Has(base', Fields(u)[i].name))
                => base'[Fields(u)[i].name].kind = "savedApplyFn"]_vars

\* AddFuncMap[S] that failed because the name of the nested struct T was bound to the
\* savedApplyFn of the field T of FT
C7_Witness ==
    /\ last.op = "AddFuncMap" /\ last.T = "S" /\ err = "error"
    /\ Has(base, "T") /\ base["T"].kind = "savedApplyFn"
    /\ Has(base, "FT") /\ IsCtorOf(base["FT"], "FT")

(***************************************************************************)
(* SpecCol: struct types that share the field names F and G are registered *)
(* in any order, and a template constructs them.                           *)
(***************************************************************************)
\* a template call (name args...)
Call(name, args) == [name |-> name, args |-> args]

IntVal(n) == Val("int", n)

StrVal(x) == Val("string", x)

\* the lists of at most n calls out of the set S
CallLists(S, n) == UNION {[1..k -> S] : k \in 0..n}

ColRoots == {"X", "Y", "W", "V", "M"}

\* the longest call list of a template of SpecCol
MaxColSteps == 1

ColCalls ==
    {Call("F", <<IntVal(1)>>), Call("F", <<StrVal("a")>>), Call("F", <<>>),
     Call("F", <<StrVal("a"), IntVal(1)>>), Call("G", <<>>), Call("G", <<IntVal(2)>>)}

NextCol ==
    \/ \E T \in ColRoots : AddFuncMap(T)
    \/ \E T \in ColRoots, cs \in CallLists(ColCalls, MaxColSteps) : Construct(Name(T), cs)

SpecCol == Init /\ [][NextCol]_vars

\* the position of the field called name in the struct type rt (0: there is none)
OwnIndex(rt, name) ==
    IF \E i \in Registrable(rt) : Fields(rt)[i].name = name
    THEN CHOOSE i \in Registrable(rt) : Fields(rt)[i].name = name
    ELSE 0

\* the calls applied to dst from call i on, each by the function genSavedApplyFnForField
\* made for the field of that name of the struct type rt itself
RECURSIVE OwnApplyAll(_, _, _, _)
OwnApplyAll(rt, cs, i, dst) ==
    IF i > Len(cs) THEN Done(dst)
    ELSE Then(ApplyField([owner |-> rt, idx |-> OwnIndex(rt, cs[i].name)], cs[i].name,
                         cs[i].args, dst),
              LAMBDA r : IF r.ok THEN OwnApplyAll(rt, cs, i + 1, r.dst) ELSE r)

\* the calls all name fields of rt
OwnCalls(rt, cs) == \A i \in 1..Len(cs) : OwnIndex(rt, cs[i].name) # 0

\* the constructor called last, and the struct type it builds
LastCtor == base[last.name]

\* C2: whatever struct types sharing a field name were registered, in whatever order,
\* constructing a struct with steps for its fields sets its own fields of those names by
\* the logic of its own field types, never by that of the same-named field of another.
C2_CollisionSafety ==
    (last.op = "Construct" /\ out.missing = <<>> /\ OwnCalls(LastCtor.rt, last.args)) =>
        \E own \in {OwnApplyAll(LastCtor.rt, last.args, 1, Zero(LastCtor.rt))} :
            /\ out.ok = own.ok
            /\ out.msg = own.msg
            /\ out.ok => out.val = own.dst

\* a struct whose field F sits in the middle of the dispatch chain of F, behind the guard
\* of a struct registered later and before the first function, was built with a step F
C2_Witness ==
    /\ last.op = "Construct" /\ out.ok /\ out.val # Zero(LastCtor.rt)
    /\ \E i \in 1..Len(last.args) : last.args[i].name = "F"
    /\ Len(base["F"].guarded) >= 2
    /\ base["F"].guarded[2].typ = LastCtor.rt
    /\ base["F"].base.owner # LastCtor.rt

(***************************************************************************)
(* SpecReq: structs with required fields are registered and constructed,   *)
(* again and again, by templates that provide some of the fields.          *)
(***************************************************************************)
ReqRoots == {"Y", "R"}

ReqCalls ==
    {Call("F", <<StrVal("a")>>), Call("F", <<StrVal("a"), StrVal("b")>>), Call("G", <<>>),
     Call("ReqInt", <<IntVal(0)>>), Call("ReqMap", <<>>)}

NextReq ==
    \/ \E T \in ReqRoots : AddFuncMap(T)
    \/ \E T \in ReqRoots, cs \in CallLists(ReqCalls, MaxSteps) : Construct(Name(T), cs)

SpecReq == Init /\ [][NextReq]_vars

\* the names of the calls cs
CallNames(cs) == {cs[i].name : i \in 1..Len(cs)}

\* the required fields of rt that no call of cs names
Unprovided(rt, cs) == RequiredOf(rt) \ CallNames(cs)

\* the constructors of structs with required fields
ReqCtors(b) == {n \in DOMAIN b : b[n].kind = "ctor" /\ RequiredOf(b[n].rt) # {}}

\* C3 as stated: whatever was invoked before, an invocation of a constructor with required
\* fields succeeds if and only if its own arguments provide every required field.
C3_SucceedsIffProvided ==
    (last.op = "Construct" /\ last.name \in ReqCtors(base)) =>
        (out.ok <=> Unprovided(LastCtor.rt, last.args) = {})

\* C3, amended: whatever was invoked before, an invocation of a constructor with required
\* fields fails the required-field check if and only if its own arguments leave a required
\* field unprovided, and no invocation modifies the required names captured by a constructor.
C3_NoSharedRequiredState ==
    /\ \A n \in ReqCtors(base) : base[n].required = RequiredOf(base[n].rt)
    /\ (last.op = "Construct" /\ last.name \in ReqCtors(base)) =>
          (out.missing # <<>> <=> Unprovided(LastCtor.rt, last.args) # {})

\* a complete invocation of a constructor with required fields has succeeded
C3_Witness ==
    /\ last.op = "Construct" /\ last.name \in ReqCtors(base)
    /\ out.ok /\ out.val # Zero(LastCtor.rt)
    /\ Unprovided(LastCtor.rt, last.args) = {}

\* the sequence s is in strictly ascending order
Ascending(s) == \A i \in 1..(Len(s) - 1) : StringLess(s[i], s[i + 1])

\* the message naming the fields of the set fs of the struct called schema, fs taken in
\* ascending order
RECURSIVE Message(_, _)
Message(schema, fs) ==
    IF fs = {} THEN " required but not provided"
    ELSE LET f == CHOOSE x \in fs : \A y \in fs : NameRank(x) <= NameRank(y)
         IN  schema \o "." \o f \o (IF fs = {f} THEN "" ELSE ", ") \o Message(schema, fs \ {f})

\* C4: when the arguments of a constructor leave required fields unprovided, construction
\* fails with one error that names exactly those fields, each as Struct.Field, in
\* ascending order, joined by ", " and followed by " required but not provided".
C4_RequiredAggregation ==
    (last.op = "Construct" /\ Unprovided(LastCtor.rt, last.args) # {}) =>
        /\ ~out.ok
        /\ Ascending(out.missing)
        /\ {q.field : q \in {out.missing[i] : i \in 1..Len(out.missing)}}
              = Unprovided(LastCtor.rt, last.args)
        /\ \A i \in 1..Len(out.missing) : out.missing[i].schema = Name(LastCtor.rt)
        /\ out.msg = Message(Name(LastCtor.rt), Unprovided(LastCtor.rt, last.args))

\* several required fields were missing while another was provided
C4_Witness ==
    /\ last.op = "Construct" /\ ~out.ok
    /\ Len(out.missing) >= 2
    /\ RequiredOf(LastCtor.rt) \cap CallNames(last.args) # {}
    /\ out.msg = "R.G, R.ReqMap required but not provided"

(***************************************************************************)
(* SpecCons: S (with T nested) and WrapS are registered, and templates     *)
(* construct S: with one step per field, its values taken from a record d, *)
(* or with any short list of steps.                                        *)
(***************************************************************************)
ConsRoots == {"S", "WrapS"}

\* the values of the fields of an S built directly: Data as a sequence of pairs with
\* distinct keys, List as a sequence of ints
DirectS ==
    [URL : {"x"},
     Data : {<<>>, <<<<"a", 1>>>>, <<<<"a", 1>>, <<"b", 2>>>>},
     List : {<<>>, <<1>>, <<1, 2>>},
     ZStr : {"q"},
     A : {"A"}]

\* S{URL: d.URL, Data: map[string]int{...}, List: []int{...}, ZStr: "z"+d.ZStr, Sub: T{A: d.A}}
DirectValue(d) ==
    Val("S", <<StrVal(d.URL),
               Val("map[string]int",
                   [alloc |-> TRUE,
                    m |-> [k \in {StrVal(d.Data[i][1]) : i \in 1..Len(d.Data)} |->
                             IntVal((CHOOSE p \in {d.Data[i] : i \in 1..Len(d.Data)} :
                                        p[1] = k.v)[2])]]),
               Val("[]int", [i \in 1..Len(d.List) |-> IntVal(d.List[i])]),
               Val("Z", "z" \o d.ZStr),
               Val("T", <<StrVal(d.A)>>)>>)

\* an argument as the template passes it: as it is, or through an interface (w)
Arg(w, x) == IF w THEN Iface(x) ELSE x

\* (S (URL u) (Data k1 v1 ...) (List e1 ...) (ZStr z) (Sub (T (A a)))), against the FuncMap b
RoundTripCalls(b, d, w) ==
    <<Call("URL", <<Arg(w, StrVal(d.URL))>>),
      Call("Data", [i \in 1..(2 * Len(d.Data)) |->
                      IF i % 2 = 1 THEN Arg(w, StrVal(d.Data[(i + 1) \div 2][1]))
                      ELSE Arg(w, IntVal(d.Data[i \div 2][2]))]),
      Call("List", [i \in 1..Len(d.List) |-> Arg(w, IntVal(d.List[i]))]),
      Call("ZStr", <<Arg(w, StrVal(d.ZStr))>>),
      Call("Sub", <<CallCtor(b["T"], MkSteps(b, <<Call("A", <<Arg(w, StrVal(d.A))>>)>>),
                             <<>>).val>>)>>

\* .Ints, a []int{1, 2, 3} of the template's data
Ints == Iface(Val("[]int", <<IntVal(1), IntVal(2), IntVal(3)>>))

ConsCalls ==
    {Call("URL", <<StrVal("x")>>), Call("URL", <<StrVal("y")>>),
     Call("Data", <<StrVal("a"), IntVal(1)>>), Call("Data", <<StrVal("a"), IntVal(2)>>),
     Call("Data", <<StrVal("b"), IntVal(2)>>),
     Call("List", <<IntVal(1), IntVal(2), IntVal(3)>>), Call("List", <<IntVal(4)>>),
     Call("List", <<IntVal(0), Ints, IntVal(4), Ints>>),
     Call("ZStr", <<StrVal("q")>>)}

NextCons ==
    \/ \E T \in ConsRoots : AddFuncMap(T)
    \/ \E d \in DirectS, w \in BOOLEAN :
          Has(base, "T") /\ Has(base, "A") /\ Construct("S", RoundTripCalls(base, d, w))
    \/ \E cs \in CallLists(ConsCalls, MaxSteps) : Construct("S", cs)

SpecCons == Init /\ [][NextCons]_vars

\* C8: the constructor of S called with one step per field (scalar, map, sequence, hook
\* and nested struct, the nested value built by the constructor of T) returns an S equal
\* to the one built directly with those field values.
C8_RoundTrip ==
    (last.op = "Construct" /\ last.name = "S" /\ Len(last.args) = NumField("S")) =>
        \A d \in DirectS, w \in BOOLEAN :
            last.args = RoundTripCalls(base, d, w) => out.ok /\ out.val = DirectValue(d)

\* an S with a two-entry map, a two-element slice and a nested T was built from
\* arguments passed through interfaces
C8_Witness ==
    /\ last.op = "Construct" /\ last.name = "S" /\ Len(last.args) = 5
    /\ \E d \in DirectS :
          /\ Len(d.Data) = 2 /\ Len(d.List) = 2
          /\ last.args = RoundTripCalls(base, d, TRUE)
          /\ out.ok /\ out.val = DirectValue(d)
          /\ out.val.v[5] = Val("T", <<StrVal("A")>>)

\* the branch of genSavedApplyFnForField that made the function of the field of rt the
\* call c names
ShapeOf(rt, c) == FieldShape([owner |-> rt, idx |-> OwnIndex(rt, c.name)])

\* the rearrangements of the calls cs that keep the steps of slice fields in their order
KeepSliceOrder(rt, cs) ==
    {[k \in 1..Len(cs) |-> cs[p[k]]] : p \in
        {q \in Perms(1..Len(cs)) :
            \A k, l \in 1..Len(cs) :
                (k < l /\ ShapeOf(rt, cs[q[k]]) = "slice" /\ ShapeOf(rt, cs[q[l]]) = "slice")
                    => q[k] < q[l]}}

\* what the constructor called last returns for the calls cs: whether it returned, and the
\* struct if it did
Instance(cs) ==
    \E r \in {CallCtor(LastCtor, MkSteps(base, cs), <<>>)} :
        /\ r.ok = out.ok
        /\ r.ok => r.val = out.val

\* the (key, elem) pairs of a map step
Pairs(c) == {<<devirt(c.args[2 * i - 1]), devirt(c.args[2 * i])>> : i \in 1..(Len(c.args) \div 2)}

\* two steps of cs set one plain or hook field, or give one key of a map field two elems
Overwrites(rt, cs) ==
    \E i, j \in 1..Len(cs) :
        /\ i < j /\ cs[i].name = cs[j].name
        /\ \/ ShapeOf(rt, cs[i]) \in {"plain", "hook"}
           \/ /\ ShapeOf(rt, cs[i]) = "map"
              /\ \E x \in Pairs(cs[i]), y \in Pairs(cs[j]) : x[1] = y[1] /\ x[2] # y[2]

Contribution(ftyp, arg) == IF devirt(arg).t = ftyp THEN devirt(arg).v ELSE <<devirt(arg)>>

RECURSIVE ArgsContribution(_, _)
ArgsContribution(ftyp, args) ==
    IF args = <<>> THEN <<>>
    ELSE Contribution(ftyp, Head(args)) \o ArgsContribution(ftyp, Tail(args))

\* the contributions of the steps of cs called name, in step order
RECURSIVE StepsContribution(_, _, _)
StepsContribution(ftyp, name, cs) ==
    IF cs = <<>> THEN <<>>
    ELSE (IF Head(cs).name = name THEN ArgsContribution(ftyp, Head(cs).args) ELSE <<>>)
            \o StepsContribution(ftyp, name, Tail(cs))

\* C10: the slice field of a struct that was constructed holds the contributions of all
\* arguments of all steps for it, in step order and then argument order; an argument of
\* the field's slice type contributes its elements, any other argument itself.
C10_SequenceSetter ==
    (last.op = "Construct" /\ last.name = "S" /\ out.ok) =>
        out.val.v[3] = Val("[]int", StepsContribution("[]int", "List", last.args))

\* (List 0 .Ints 4 .Ints) and then (List 4) were applied
C10_Witness ==
    /\ last.op = "Construct" /\ last.name = "S" /\ out.ok
    /\ last.args = <<Call("List", <<IntVal(0), Ints, IntVal(4), Ints>>),
                     Call("List", <<IntVal(4)>>)>>
    /\ out.val.v[3].v = <<IntVal(0), IntVal(1), IntVal(2), IntVal(3), IntVal(4),
                          IntVal(1), IntVal(2), IntVal(3), IntVal(4)>>

(***************************************************************************)
(* SpecMap: structs with a map field are registered and constructed with   *)
(* steps of (key, elem) pairs, of a map argument, or of no argument.       *)
(***************************************************************************)
MapRoots == {"M", "MA"}

\* a map value of type t with the entries m
MapVal(t, m) == Val(t, [alloc |-> TRUE, m |-> m])

\* .M, a map[string]int of the template's data
IntMap == Iface(MapVal("map[string]int", (StrVal("a") :> IntVal(3)) @@ (StrVal("c") :> IntVal(3))))

\* .A, a map[string]any of the template's data
AnyMap == Iface(MapVal("map[string]interface {}", (StrVal("b") :> StrVal("s"))))

MapCalls ==
    {Call("F", <<StrVal("a"), IntVal(1)>>),
     Call("F", <<StrVal("a"), IntVal(2), StrVal("b"), IntVal(2)>>),
     Call("F", <<>>),
     Call("F", <<StrVal("a")>>),
     Call("F", <<StrVal("a"), IntVal(1), StrVal("b")>>),
     Call("F", <<IntMap>>),
     Call("F", <<AnyMap>>)}

NextMap ==
    \/ \E T \in MapRoots : AddFuncMap(T)
    \/ \E T \in MapRoots, cs \in CallLists(MapCalls, MaxSteps) : Construct(Name(T), cs)

SpecMap == Init /\ [][NextMap]_vars

\* the step c for a field of type ftyp has one argument, a map whose key and elem types
\* are assignable to those of ftyp
DirectMapStep(ftyp, c) ==
    /\ Len(c.args) = 1
    /\ Kind(devirt(c.args[1]).t) = "map"
    /\ AssignableTo(TypeInfo(devirt(c.args[1]).t).key, TypeInfo(ftyp).key)
    /\ AssignableTo(TypeInfo(devirt(c.args[1]).t).elem, TypeInfo(ftyp).elem)

\* the (key, elem) pairs the step c contributes to a field of type ftyp, in the order
\* they are stored (the entries of a map argument have distinct keys)
StepPairs(ftyp, c) ==
    IF DirectMapStep(ftyp, c)
    THEN LET src == devirt(c.args[1]).v.m IN [i \in 1..Cardinality(DOMAIN src) |->
             LET k == SomeOrder(DOMAIN src)[i] IN <<k, src[k]>>]
    ELSE [i \in 1..(Len(c.args) \div 2) |-> <<devirt(c.args[2 * i - 1]), devirt(c.args[2 * i])>>]

\* the pairs of the steps of cs called name, in step order
RECURSIVE AllPairs(_, _, _)
AllPairs(ftyp, name, cs) ==
    IF cs = <<>> THEN <<>>
    ELSE (IF Head(cs).name = name THEN StepPairs(ftyp, Head(cs)) ELSE <<>>)
            \o AllPairs(ftyp, name, Tail(cs))

\* the union of the pairs ps: every key, with the elem of its last pair
UnionOf(ps) ==
    [k \in {ps[i][1] : i \in 1..Len(ps)} |->
        ps[CHOOSE i \in 1..Len(ps) : ps[i][1] = k /\ \A j \in (i + 1)..Len(ps) : ps[j][1] # k][2]]

\* the type of the field of rt called name
OwnFieldType(rt, name) == Fields(rt)[OwnIndex(rt, name)].typ

\* C11: after the steps for a map field the field holds the union of the pairs of all
\* steps, a step contributing its arguments as consecutive (key, elem) pairs or, when it
\* is one compatible map, the entries of that map; and a step without arguments leaves an
\* empty, allocated map.
C11_MapAccumulates ==
    (last.op = "Construct" /\ out.ok /\ last.args # <<>>) =>
        out.val.v[1] = MapVal(OwnFieldType(LastCtor.rt, "F"),
                              UnionOf(AllPairs(OwnFieldType(LastCtor.rt, "F"), "F", last.args)))

\* a map argument and then a step of pairs were applied: the key of the map argument that
\* the pairs do not name is kept, the one they name has the later elem
C11_Witness ==
    /\ last.op = "Construct" /\ last.name = "MA" /\ out.ok
    /\ last.args = <<Call("F", <<IntMap>>),
                     Call("F", <<StrVal("a"), IntVal(2), StrVal("b"), IntVal(2)>>)>>
    /\ out.val.v[1].v.m = (StrVal("a") :> IntVal(2)) @@ (StrVal("b") :> IntVal(2))
                              @@ (StrVal("c") :> IntVal(3))

\* the step c for a field of type ftyp is no compatible map and has an odd argument count
OddStep(ftyp, c) == ~DirectMapStep(ftyp, c) /\ Len(c.args) % 2 = 1

\* C19: a map step that is not one compatible map and has an odd number of arguments
\* (a single argument that is no compatible map included) fails when it is applied, with
\* the "odd number of args" error, and stores no entry: the map is as the steps before
\* it left it.
C19_MapOddCount ==
    last.op = "Construct" =>
        \A i \in 1..Len(last.args) :
            (/\ OddStep(OwnFieldType(LastCtor.rt, "F"), last.args[i])
             /\ \A j \in 1..(i - 1) : ~OddStep(OwnFieldType(LastCtor.rt, "F"), last.args[j])) =>
                /\ ~out.ok
                /\ out.msg = "odd number of args to F"
                /\ out.dst.v[1] =
                      MapVal(OwnFieldType(LastCtor.rt, "F"),
                             UnionOf(AllPairs(OwnFieldType(LastCtor.rt, "F"), "F",
                                              SubSeq(last.args, 1, i - 1))))

\* a step of three arguments failed after a step of pairs, whose entry is all the map holds
C19_Witness ==
    /\ last.op = "Construct" /\ last.name = "M" /\ ~out.ok
    /\ last.args = <<Call("F", <<StrVal("a"), IntVal(1)>>),
                     Call("F", <<StrVal("a"), IntVal(1), StrVal("b")>>)>>
    /\ out.msg = "odd number of args to F"
    /\ out.dst.v[1].v.m = (StrVal("a") :> IntVal(1))

(***************************************************************************)
(* SpecPlain: structs with bool, int, string and struct fields are         *)
(* registered and constructed with steps of no, one or two arguments.      *)
(***************************************************************************)
PlainRoots == {"PS", "X", "Y"}

\* what (T (A "A")) evaluates to
TVal == Val("T", <<StrVal("A")>>)

PlainCalls ==
    {Call("F", <<>>), Call("F", <<IntVal(1)>>), Call("F", <<IntVal(1), IntVal(2)>>),
     Call("F", <<StrVal("a")>>),
     Call("G", <<>>), Call("G", <<Iface(Val("bool", TRUE))>>),
     Call("G", <<Val("bool", TRUE), Val("bool", FALSE)>>),
     Call("Sub", <<>>), Call("Sub", <<TVal>>), Call("Sub", <<TVal, TVal>>)}

NextPlain ==
    \/ \E T \in PlainRoots : AddFuncMap(T)
    \/ \E T \in PlainRoots, cs \in CallLists(PlainCalls, MaxColSteps) : Construct(Name(T), cs)

SpecPlain == Init /\ [][NextPlain]_vars

WrongNumber(name) == "wrong number of args to " \o name \o ", expected 1"

\* what the claim says of the steps cs for plain fields of rt, applied to dst in turn
RECURSIVE PlainSteps(_, _, _)
PlainSteps(rt, cs, dst) ==
    IF cs = <<>> THEN Done(dst)
    ELSE LET c == Head(cs)
             i == OwnIndex(rt, c.name)
             ftyp == OwnFieldType(rt, c.name)
         IN  IF Len(c.args) = 1
             THEN IF ConvertibleTo(devirt(c.args[1]).t, ftyp)
                  THEN PlainSteps(rt, Tail(cs), SetField(dst, i, Convert(devirt(c.args[1]), ftyp)))
                  ELSE Panic(dst, "reflect.Value.Convert: value cannot be converted")
             ELSE IF Len(c.args) = 0 /\ Kind(ftyp) = "bool"
             THEN PlainSteps(rt, Tail(cs), SetField(dst, i, Val(ftyp, TRUE)))
             ELSE Panic(dst, WrongNumber(c.name))

\* the calls all name plain fields of rt
PlainCallsOf(rt, cs) ==
    \A i \in 1..Len(cs) : OwnIndex(rt, cs[i].name) # 0 /\ ShapeOf(rt, cs[i]) = "plain"

\* C12: a step for a scalar or nested-struct field with one argument replaces the field
\* with the argument converted to the field's type (when it can be converted); with no
\* argument it sets a bool field to true and fails otherwise with "wrong number of args";
\* with two or more arguments it fails with that error.
C12_ScalarArgCount ==
    (last.op = "Construct" /\ out.missing = <<>> /\ PlainCallsOf(LastCtor.rt, last.args)) =>
        \E want \in {PlainSteps(LastCtor.rt, last.args, Zero(LastCtor.rt))} :
            /\ out.ok = want.ok
            /\ out.msg = want.msg
            /\ out.dst = want.dst

\* a step without argument failed for the nested struct field
C12_Witness ==
    /\ last.op = "Construct" /\ last.name = "PS" /\ ~out.ok
    /\ last.args = <<Call("Sub", <<>>)>>
    /\ out.msg = "wrong number of args to Sub, expected 1"
    /\ out.dst = Zero("PS")

(***************************************************************************)
(* SpecZero: structs whose fields are all required are constructed with,   *)
(* for every required field, no step, a step that stores the zero value,   *)
(* or a step that stores another value.                                    *)
(***************************************************************************)
ZeroRoots == {"RZ", "RC"}

\* how a template treats a required field
Treatments == {"absent", "zero", "value"}

\* the step of a template for the required field name: the one that stores the zero
\* value, or one that stores another value
ZeroStep(name, how) ==
    CASE name = "ReqInt" -> Call(name, <<IntVal(IF how = "zero" THEN 0 ELSE 1)>>)
      [] name = "ReqZStr" -> Call(name, <<StrVal(IF how = "zero" THEN "" ELSE "q")>>)
      [] name = "ReqStruct" -> Call(name, <<IF how = "zero" THEN Zero("T") ELSE TVal>>)
      [] name = "ReqSlice" -> Call(name, IF how = "zero" THEN <<>> ELSE <<IntVal(1)>>)
      [] name = "ReqMap" -> Call(name, IF how = "zero" THEN <<>> ELSE <<StrVal("a"), IntVal(1)>>)

\* the steps of a template that treats the fields of rt as h says, in field order
RECURSIVE ZeroCalls(_, _, _)
ZeroCalls(rt, h, i) ==
    IF i > NumField(rt) THEN <<>>
    ELSE (IF Fields(rt)[i].tag = "+" /\ h[Fields(rt)[i].name] # "absent"
          THEN <<ZeroStep(Fields(rt)[i].name, h[Fields(rt)[i].name])>> ELSE <<>>)
            \o ZeroCalls(rt, h, i + 1)

NextZero ==
    \/ \E T \in ZeroRoots : AddFuncMap(T)
    \/ \E T \in ZeroRoots : \E h \in [RequiredOf(T) -> Treatments] :
          Construct(Name(T), ZeroCalls(T, h, 1))

SpecZero == Init /\ [][NextZero]_vars

\* C13: a required field counts as provided exactly when a step for its name is among
\* the arguments, whatever the step stores: steps that store zero values (0, "" given to
\* a hook, a nested struct built without steps, a slice or map step without arguments)
\* satisfy the requirement, and the construction succeeds.
C13_PresenceNotNonZero ==
    last.op = "Construct" =>
        /\ {q.field : q \in {out.missing[i] : i \in 1..Len(out.missing)}}
              = RequiredOf(LastCtor.rt) \ CallNames(last.args)
        /\ RequiredOf(LastCtor.rt) \subseteq CallNames(last.args) => out.ok

\* RZ was constructed from steps that store zero values only: but for what the hook stores,
\* it is the zero RZ
C13_Witness ==
    /\ last.op = "Construct" /\ last.name = "RZ" /\ out.ok
    /\ last.args = <<Call("ReqInt", <<IntVal(0)>>), Call("ReqZStr", <<StrVal("")>>),
                     Call("ReqStruct", <<Zero("T")>>)>>
    /\ out.val = SetField(Zero("RZ"), 3, Val("Z", "z"))

(***************************************************************************)
(* Properties of fields that share a name, under SpecCol.                  *)
(***************************************************************************)
\* the field of rt called name has the tag "+"
TaggedRequired(rt, name) ==
    OwnIndex(rt, name) # 0 /\ Fields(rt)[OwnIndex(rt, name)].tag = "+"

\* C14: with X, where F is not required, and Y, where F is required, registered into one
\* FuncMap in either order, constructing X without a step F succeeds and constructing Y
\* without a step F fails with the required-field error: a construction without a step F
\* fails the required check exactly when F is required in the struct constructed.
C14_RequiredPerSchema ==
    (/\ last.op = "Construct" /\ {"X", "Y"} \subseteq DOMAIN base
     /\ "F" \notin CallNames(last.args) /\ OwnCalls(LastCtor.rt, last.args)) =>
        /\ out.missing # <<>> <=> TaggedRequired(LastCtor.rt, "F")
        /\ last.name = "X" => out.ok
        /\ last.name = "Y" => ~out.ok /\ out.msg = "Y.F required but not provided"

\* Y was registered before X, so that the first function of F is Y's, and X was
\* constructed without a step
C14_Witness ==
    /\ last.op = "Construct" /\ last.name = "X" /\ last.args = <<>>
    /\ {"X", "Y"} \subseteq DOMAIN base
    /\ base["F"].base.owner = "Y"
    /\ base["Y"].required = {"F"}
    /\ out.ok /\ out.val = Zero("X")

\* C20: the steps of a construction change only the fields they are named after and leave
\* every other field of the struct as it was, also when the struct has no field of a
\* step's name or is not the struct of the function that finally runs.
C20_OwnFieldOnly ==
    (last.op = "Construct" /\ out.missing = <<>>) =>
        \A i \in 1..NumField(LastCtor.rt) :
            Fields(LastCtor.rt)[i].name \notin CallNames(last.args) =>
                out.dst.v[i] = Zero(LastCtor.rt).v[i]

(***************************************************************************)
(* SpecVal: the types that registration looks at closely are registered:   *)
(* tagged and unexported fields, anonymous structs, TStructSet methods.    *)
(***************************************************************************)
TagRoots == {"Unk", "Ig", "IgU", "IgBad", "T", "FT"}

AnonRoots == {"struct { A int }", "[]int", "int", "AnonF", "AnonS", "AnonM", "AnonK", "AnonN"}

HookRoots == {"HR", "HV", "HVR", "W"}

NextVal == \E T \in TagRoots \cup AnonRoots \cup HookRoots : AddFuncMap(T)

SpecVal == Init /\ [][NextVal]_vars

\* C15: registering a struct that has a field with a tag that is none of "-" and "+" (and
\* not absent) returns an error and leaves the FuncMap unchanged.
C15_UnknownDirective ==
    [][(last'.op = "AddFuncMap" /\ last'.T = "Unk") => err' = "error" /\ base' = base]_vars

\* the fields of rt that registration skips: unexported, or with the tag "-"
Skipped(rt) == {i \in 1..NumField(rt) : ~Fields(rt)[i].exported \/ Fields(rt)[i].tag = "-"}

\* the entry of the name n is in the FuncMap m2 only if it was in m1, and then the same
Untouched(m1, m2, n) == Has(m2, n) => (Has(m1, n) /\ m2[n] = m1[n])

\* C16: registering a struct with ignored or unexported fields binds no function to the
\* name of such a field and no constructor to the struct type the field contains, and
\* the field causes no error - not when it has the name of a struct type that is
\* registered, nor when its type is one that registration rejects.
C16_IgnoredExcluded ==
    [][(last'.op = "AddFuncMap" /\ last'.T \in {"Ig", "IgU", "IgBad"}) =>
          /\ err' = "nil"
          /\ \A i \in Skipped(last'.T) :
                /\ Untouched(base, base', Fields(last'.T)[i].name)
                /\ Untouched(base, fnmap', Fields(last'.T)[i].name)
                /\ \A k \in 1..Len(NestedStructs(Fields(last'.T)[i].typ)) :
                      /\ Untouched(base, base', Name(NestedStructs(Fields(last'.T)[i].typ)[k]))
                      /\ Untouched(base, fnmap', Name(NestedStructs(Fields(last'.T)[i].typ)[k]))]_vars

\* Ig, with its ignored field T of type T, was registered after the struct T, whose
\* constructor is bound to T still
C16_Witness ==
    /\ last.op = "AddFuncMap" /\ last.T = "Ig" /\ err = "nil"
    /\ Has(base, "Ig") /\ base["Ig"].kind = "ctor"
    /\ Has(base, "T") /\ base["T"] = Ctor("T", "T", {})
    /\ base["F"].kind = "savedApplyFn"

\* the struct types that are the type, the element type or the key type of a field of rt
\* that registration does not skip
FieldStructs(rt) ==
    {u \in {"struct { A int }", "AnonF", "T", "S", "WrapS"} :
        \E i \in (1..NumField(rt)) \ Skipped(rt) :
            LET ftyp == Fields(rt)[i].typ
            IN  \/ u = ftyp
                \/ Kind(ftyp) \in {"slice", "map"} /\ u = TypeInfo(ftyp).elem
                \/ Kind(ftyp) = "map" /\ u = TypeInfo(ftyp).key}

\* an anonymous struct is reached from the fields of rt
RECURSIVE ReachesAnonymous(_)
ReachesAnonymous(rt) ==
    \E u \in FieldStructs(rt) : Name(u) = "" \/ ReachesAnonymous(u)

\* C17: AddFuncMap returns an error (and leaves the FuncMap as it was) when the root type
\* is no struct, when it is a struct without a name, or when the type of a field that is
\* not skipped, reached through struct fields, slice elements and map keys and elems, is
\* an anonymous struct.
C17_AnonymousRejected ==
    [][(/\ last'.op = "AddFuncMap"
        /\ \/ Kind(last'.T) # "struct"
           \/ Name(last'.T) = ""
           \/ ReachesAnonymous(last'.T)) => err' = "error" /\ base' = base]_vars

\* AnonN was rejected for the anonymous struct in a field of its field's struct type
\* AnonF, after the constructor of AnonF had been put into the working copy
C17_Witness ==
    /\ last.op = "AddFuncMap" /\ last.T = "AnonN" /\ err = "error"
    /\ {"AnonN", "A", "AnonF"} \subseteq DOMAIN fnmap
    /\ base # <<>>
    /\ DOMAIN base \cap {"AnonN", "AnonF", "X", "Inner"} = {}

\* the TStructSet method of the type of the one field of a struct of HookRoots
HookOf(rt) == TypeInfo(Fields(rt)[1].typ).hook

\* C18: registering a struct with a field whose type has a TStructSet method returns an
\* error (and leaves the FuncMap as it was) when the method returns a value or is in the
\* method set of the type itself, and succeeds only for a method without results that
\* only the pointer to the type has.
C18_HookValidation ==
    [][(last'.op = "AddFuncMap" /\ last'.T \in HookRoots) =>
          IF HookOf(last'.T) = "ptr" THEN err' = "nil"
          ELSE err' = "error" /\ base' = base]_vars

\* HV, whose method has a value receiver, was rejected after W, whose method has a
\* pointer receiver, had been registered
C18_Witness ==
    /\ last.op = "AddFuncMap" /\ last.T = "HV" /\ err = "error"
    /\ HookOf("HV") = "value"
    /\ Has(fnmap, "HV") /\ ~Has(base, "HV")
    /\ Has(base, "W") /\ base["F"].base.owner = "W"

(***************************************************************************)
(* The two phases of a constructor with required fields, under SpecReq.    *)
(***************************************************************************)
\* C21: a constructor with required fields first feeds every step the map of required
\* names, which only removes names: when a required field stays unprovided the call
\* fails with the required-field error whatever the other steps are, and the struct
\* under construction is still the zero value; otherwise the call does to the zero
\* struct what the steps do to it one after the other.
C21_TwoPhase ==
    (last.op = "Construct" /\ last.name \in ReqCtors(base)) =>
        IF Unprovided(LastCtor.rt, last.args) # {}
        THEN /\ ~out.ok
             /\ out.msg = Message(Name(LastCtor.rt), Unprovided(LastCtor.rt, last.args))
             /\ out.dst = Zero(LastCtor.rt)
             /\ out.val = Zero(LastCtor.rt)
        ELSE \E r \in {ApplyAll(MkSteps(base, last.args), 1, Zero(LastCtor.rt))} :
                /\ out.ok = r.ok /\ out.dst = r.dst /\ out.msg = r.msg
                /\ out.missing = <<>>

\* R was constructed from a step for one of its required fields and a step with two
\* arguments that panics when it is applied to an R: the other required fields are
\* reported, not the argument count
C21_Witness ==
    /\ last.op = "Construct" /\ last.name = "R"
    /\ last.args = <<Call("ReqInt", <<IntVal(0)>>), Call("F", <<StrVal("a"), StrVal("b")>>)>>
    /\ ~ApplyAll(MkSteps(base, last.args), 1, Zero("R")).ok
    /\ out.msg = "R.G, R.ReqMap required but not provided"
    /\ out.dst = Zero("R")

(***************************************************************************)
(* The type of the constructors, under Spec.                               *)
(***************************************************************************)
\* the entry e is a constructor that returns a T, not a reflect.Value
Typed(e) == e.kind = "ctor" /\ e.T = e.rt

\* C22: a registration leaves every constructor that returns its struct type in place,
\* returning the same type, and after a struct A and a struct W that contains A were
\* both registered, in either order, the names of A and of W are bound to constructors
\* that return an A and a W.
C22_TypedCtorKept ==
    [][/\ \A n \in DOMAIN base :
              Typed(base[n]) => (Has(base', n) /\ Typed(base'[n]) /\ base'[n].rt = base[n].rt)
       /\ \A A, W \in StructTypes :
              (/\ A \in Contained(W)
               /\ calls = 1 /\ last.op = "AddFuncMap" /\ err = "nil"
               /\ last'.op = "AddFuncMap" /\ err' = "nil"
               /\ \/ last.T = A /\ last'.T = W
                  \/ last.T = W /\ last'.T = A)
              => /\ Typed(base'[Name(A)]) /\ base'[Name(A)].rt = A
                 /\ Typed(base'[Name(W)]) /\ base'[Name(W)].rt = W]_vars

\* S was registered after WrapS, which had bound S to a constructor that returns a
\* reflect.Value: the fields of S were registered a second time
C22_Witness ==
    /\ calls = 2 /\ last.op = "AddFuncMap" /\ last.T = "S" /\ err = "nil"
    /\ Has(base, "WrapS") /\ Typed(base["WrapS"])
    /\ Typed(base["S"])
    /\ base["URL"].guarded # <<>>

(***************************************************************************)
(* What a registration that returned nil has registered, under Spec.       *)
(***************************************************************************)
\* the fields whose functions are behind the entry e of a field name
FieldsOf(e) == {e.base} \cup {e.guarded[i].fn : i \in 1..Len(e.guarded)}

\* C23: after AddFuncMap[W] returned nil, the FuncMap holds a constructor for W and for
\* every struct reachable from W through fields that are not skipped, and a savedApplyFn
\* under the name of every such field of each of them; and wherever the working copy
\* holds the function of a field, it holds the constructors of the structs the field
\* contains.
C23_TransitiveRegistration ==
    [][IsAddFuncMap(last') =>
          /\ err' = "nil" =>
                \A t \in Reach(last'.T) :
                    /\ Has(base', Name(t)) /\ IsCtorOf(base'[Name(t)], t)
                    /\ \A i \in Registrable(t) :
                          /\ Has(base', Fields(t)[i].name)
                          /\ base'[Fields(t)[i].name].kind = "savedApplyFn"
                          /\ [owner |-> t, idx |-> i] \in FieldsOf(base'[Fields(t)[i].name])
          /\ \A n \in DOMAIN fnmap' :
                fnmap'[n].kind = "savedApplyFn" =>
                    \A f \in FieldsOf(fnmap'[n]) :
                        \A t \in Contained(f.owner) \cap
                                 {NestedStructs(Fields(f.owner)[f.idx].typ)[j] :
                                     j \in 1..Len(NestedStructs(Fields(f.owner)[f.idx].typ))} :
                            Has(fnmap', Name(t)) /\ IsCtorOf(fnmap'[Name(t)], t)]_vars

(***************************************************************************)
(* SpecRec: structs that contain themselves are registered.                *)
(***************************************************************************)
RecRoots == {"Node", "MNode", "P", "Q", "RNode"}

NextRec == \E T \in RecRoots : AddFuncMap(T)

SpecRec == Init /\ [][NextRec]_vars

\* the struct type T contains itself, or a struct it contains does
Recursive(T) == \E u \in Reach(T) : u \in ReachFrom(Contained(u), {})

\* C25: registering a struct that contains itself in a slice or in a map, directly or
\* through other structs, comes to an end and returns nil, with the constructor of every
\* struct of the cycle in the FuncMap.
C25_RecursiveRegisters ==
    [][(IsAddFuncMap(last') /\ Recursive(last'.T)) =>
          /\ err' = "nil"
          /\ \A u \in Reach(last'.T) : Has(base', Name(u)) /\ IsCtorOf(base'[Name(u)], u)]_vars

(***************************************************************************)
(* SpecUser: a caller binds functions of its own, some of them with the    *)
(* type of a constructor, and registers types.                             *)
(***************************************************************************)
UserRoots == {"T", "S", "X", "FT", "Y"}

\* the result types of the user's functions of the type func(args ...applyFn) U
UserCtors == {"T", "T2", "X"}

NextUser ==
    \/ \E T \in UserRoots : AddFuncMap(T)
    \/ \E n \in UserNames : BindUser(n)
    \/ \E U \in UserCtors : BindCtor(U)

SpecUser == Init /\ [][NextUser]_vars

\* the entry e was stored by the caller, not by a registration
ByUser(e) == e.kind = "userfn" \/ "user" \in DOMAIN e

\* the names a registration of T may bind: those of the structs it registers and of
\* their exported fields that are not ignored
NamesOf(T) ==
    {Name(u) : u \in Reach(T)} \cup
    UNION {{Fields(u)[i].name : i \in Registrable(u)} : u \in Reach(T)}

\* C27: an AddFuncMap that returns nil removes no name from the FuncMap, leaves every
\* function the caller has bound as it is, and binds no new name but those of the structs
\* it registers and of their exported fields that are not ignored.
C27_Frame ==
    [][(IsAddFuncMap(last') /\ err' = "nil") =>
          /\ DOMAIN base \subseteq DOMAIN base'
          /\ \A n \in DOMAIN base : ByUser(base[n]) => base'[n] = base[n]
          /\ (DOMAIN base') \ (DOMAIN base) \subseteq NamesOf(last'.T)]_vars

(***************************************************************************)
(* SpecStep: a template keeps the applyFns it has passed to a constructor  *)
(* and passes them to the same constructor a second time.                  *)
(***************************************************************************)
StepRoots == {"W", "V", "M", "Y"}

\* the most AddFuncMap calls before the template runs
MaxStepRegs == 2

StepCalls == {Call("F", <<StrVal("a")>>), Call("F", <<IntVal(1)>>), Call("G", <<>>)}

NextStep ==
    \/ \E T \in StepRoots : inv[1].pc = "idle" /\ calls < MaxStepRegs /\ AddFuncMap(T)
    \/ \E T \in StepRoots, cs \in CallLists(StepCalls, MaxColSteps) : Invoke(1, Name(T), cs)
    \/ Mark(1)
    \/ Check(1)
    \/ ApplyStep(1)
    \/ Return(1)
    \/ Reuse(1)

SpecStep == Init /\ [][NextStep]_vars

\* C24: an applyFn applied to a fresh struct, and later to another fresh struct, does
\* the same to both, whatever the kind of its field, and applying an applyFn leaves the
\* arguments it has captured as they were.
C24_StepsReusable ==
    /\ \A p \in Procs : inv[p].pc # "idle" => inv[p].steps = inv[p].steps0
    /\ \A p \in Procs :
          (inv[p].pc = "done" /\ inv[p].reused) =>
              (inv[p].res.ok /\ inv[p].res.val = inv[p].prev.val)

(***************************************************************************)
(* SpecInter: two template executions call constructors of one FuncMap,    *)
(* and the statements of the two invocations interleave.                   *)
(***************************************************************************)
InterRoots == {"Y", "W"}

\* the most AddFuncMap calls before the templates run
MaxInterRegs == 2

\* the longest call list of a template of SpecInter
MaxInterSteps == 2

InterCalls == {Call("F", <<StrVal("a")>>), Call("G", <<>>)}

NextInter ==
    \/ \E T \in InterRoots :
          (\A p \in Procs : inv[p].pc = "idle") /\ calls < MaxInterRegs /\ AddFuncMap(T)
    \/ \E p \in Procs, T \in InterRoots, cs \in CallLists(InterCalls, MaxInterSteps) :
          Invoke(p, Name(T), cs)
    \/ \E p \in Procs : Mark(p)
    \/ \E p \in Procs : Check(p)
    \/ \E p \in Procs : ApplyStep(p)
    \/ \E p \in Procs : Return(p)

SpecInter == Init /\ [][NextInter]_vars

\* what the invocation p returns when no other invocation runs
Alone(p) ==
    CallCtor(Ctor(base[inv[p].name].T, base[inv[p].name].rt, RequiredOf(base[inv[p].name].rt)),
             inv[p].steps0, SomeOrder(RequiredOf(base[inv[p].name].rt)))

\* the applyFns the loop of the invocation p has been through
Applied(p) == SubSeq(inv[p].steps0, 1, inv[p].i - 1)

\* C26: two constructor invocations of one FuncMap whose statements interleave return
\* each what it returns when it runs alone; each works on a struct and on a clone of the
\* required map of its own, and the map the constructor has captured is written by none.
C26_Independent ==
    /\ \A n \in DOMAIN base :
          base[n].kind = "ctor" => base[n].required = RequiredOf(base[n].rt)
    /\ \A p \in Procs :
          /\ inv[p].pc = "done" => inv[p].res = Alone(p)
          /\ inv[p].pc = "mark" =>
                /\ inv[p].ref = "r2"
                /\ inv[p].r2 = MarkAll(Applied(p), 1,
                                       [required |-> {}, r2 |-> RequiredOf(base[inv[p].name].rt)],
                                       "r2")["r2"]
                /\ inv[p].v = Zero(base[inv[p].name].rt)
          /\ inv[p].pc = "apply" =>
                /\ ApplyAll(Applied(p), 1, Zero(base[inv[p].name].rt)).ok
                /\ inv[p].v = ApplyAll(Applied(p), 1, Zero(base[inv[p].name].rt)).dst

\* one invocation of the constructor of Y has panicked for its missing field while another
\* one, of the same constructor and with the field given, is between its two loops or in
\* the second; it returns the struct later
C26_Witness ==
    /\ inv[1].pc = "done" /\ ~inv[1].res.ok /\ inv[1].name = "Y"
    /\ inv[1].res.msg = "Y.F required but not provided"
    /\ inv[2].pc = "apply" /\ inv[2].name = "Y" /\ inv[2].i > 1
    /\ last.op = "Check" /\ last.p = 1

====
